---- MODULE Spec2Model ----
(***************************************************************************)
(* Model of the test-plan execution engine of the test automation          *)
(* framework: libs/test_library.py (TestAutomationFramework),              *)
(* libs/log_library.py (LogManager, JSONExecutionLogger),                  *)
(* libs/tmp_area_library.py (TmpAreaManager) and                           *)
(* libs/credential_library.py (CredentialManager, resolve_authentication), *)
(* and of the web relay web/backend/test_execution.py                      *)
(* (TestExecutionManager).                                                 *)
(*                                                                         *)
(* A Python dict is a TLA+ function whose DOMAIN is the set of its keys;   *)
(* None and the empty string are both the empty string (both are falsy in  *)
(* every test the code makes on them).  "Raises" always means an exception *)
(* derived from Exception, the class every handler of the engine catches.  *)
(***************************************************************************)
EXTENDS Integers, Sequences, FiniteSets, TLC

\* ------------------------------------------------------------------ bounds
\* Largest number of test cases in a plan.
MaxCases == 2
\* Largest number of steps in a plan, all cases together.
MaxSteps == 2
\* Largest number of plan files run_all_test_plans finds.
MaxPlanFiles == 2
\* Largest number of create/cleanup calls a client of the temp-area manager makes.
MaxCalls == 3
\* resolve_authentication calls a client of the credential library makes
MaxResolves == 2
\* Deepest nesting of dicts and lists below the top of a parameter tree.
MaxDepth == 2
\* Lines the child of the web relay writes to one of its output streams.
MaxLines == 1

\* --------------------------------------------------------- dict primitives
\* dict.get(k, default)
Get(d, k, default) == IF k \in DOMAIN d THEN d[k] ELSE default

\* d[k] = v on a dict (adds or overwrites one key)
Put(d, k, v) == [x \in (DOMAIN d) \cup {k} |-> IF x = k THEN v ELSE d[x]]

\* An update in which the keys d already has keep their values.
update_keeping_own(d, other) ==
    [x \in (DOMAIN d) \cup (DOMAIN other) |-> IF x \in DOMAIN d THEN d[x] ELSE other[x]]

\* dict.update(other): the keys of other overwrite those of d
Update(d, other) ==
    [x \in (DOMAIN d) \cup (DOMAIN other) |-> IF x \in DOMAIN other THEN other[x] ELSE d[x]]

\* The empty dict {}
EmptyDict == [x \in {} |-> 0]

\* ------------------------------------------------------------ plan inputs
\* Values of a test case's "id"; the filter may also name an id no case has.
CaseIds == {1, 2}

\* No test-case-id filter (test_case_id=None).
NoFilter == 0

\* Parameter values are tagged by their Python type.  A string is the sequence
\* of its pieces: the <tmp> tag, the separator "/", and names.
StrVal(pieces) == [t |-> "str", v |-> pieces]
IntVal(n) == [t |-> "int", v |-> <<n>>]
ListVal(items) == [t |-> "list", v |-> items]
DictVal(map) == [t |-> "dict", v |-> map]

\* The scalars of a parameter tree: a string with the <tmp> tag, a string
\* without it, a number.
Leaves == << StrVal(<<"<tmp>", "/", "a.txt">>), StrVal(<<"plain">>), IntVal(7) >>

\* The values nested at most depth deep, listed: a scalar, a dict of one key
\* or a list of one item holding a value one level shallower.
RECURSIVE Values(_)
Values(depth) ==
    IF depth = 0 THEN Leaves
    ELSE LET inner == Values(depth - 1) IN
         Leaves \o [i \in 1..Len(inner) |-> DictVal([k |-> inner[i]])]
                \o [i \in 1..Len(inner) |-> ListVal(<<inner[i]>>)]

\* The parameter trees handed to process_parameters, listed: a dict of one key.
ParameterTrees == LET values == Values(MaxDepth) IN
                  [i \in 1..Len(values) |-> DictVal([p |-> values[i]])]

\* A parameter map without strings, and one whose value holds the <tmp> tag.
PlainParameters == DictVal([count |-> IntVal(7)])
TmpParameters == DictVal([file_path |-> StrVal(<<"<tmp>", "/", "out.txt">>)])

\* A parameter map that names a key of the credential maps as well.
CollidingParameters ==
    DictVal([auth_username |-> StrVal(<<"mine">>), auth_token |-> StrVal(<<"<tmp>", "/", "t">>),
             file_path |-> StrVal(<<"<tmp>", "/", "out.txt">>)])

\* The name of the plan of a run of one plan file, and the names of the files
\* run_all_test_plans finds: they differ in a character that no file name may
\* hold.
DefaultPlanName == <<"plan">>
PlanNames == { <<"a", "/", "b">>, <<"a", ":", "b">> }

\* authentication blocks of a step: absent/empty, incomplete, basic, token
NoAuth == EmptyDict
IncompleteAuth == [authentication_type |-> "basic"]
BasicAuth == [authentication_type |-> "basic", authentication_name |-> "svc"]
TokenAuth == [authentication_type |-> "token", authentication_name |-> "svc"]
AuthConfigs == {NoAuth, IncompleteAuth, BasicAuth, TokenAuth}

\* A step of a plan file.  test_script and test_function are always present
\* here; what the loader makes of them is an input of the step's execution.
Step(n, params, auth) ==
    [step_number |-> ToString(n), test_script |-> "script.py", test_function |-> "fn",
     parameters |-> params, authentication |-> auth]

\* The same step in a plan file that leaves step_number out.
StepWithoutNumber(params, auth) ==
    [test_script |-> "script.py", test_function |-> "fn",
     parameters |-> params, authentication |-> auth]

\* Steps of the plans of Spec: numbered by position, <tmp> in the parameters.
RECURSIVE NumberedSteps(_)
NumberedSteps(n) ==
    IF n = 0 THEN <<>> ELSE Append(NumberedSteps(n - 1), Step(n, TmpParameters, NoAuth))

\* A test case of a plan file.
TestCase(id, neg, steps) ==
    [id |-> id, name |-> "case", description |-> "d", negative_test |-> neg, steps |-> steps]

\* Number of steps of a sequence of test cases.
RECURSIVE TotalSteps(_)
TotalSteps(cases) ==
    IF cases = <<>> THEN 0
    ELSE Len(Get(Head(cases), "steps", <<>>)) + TotalSteps(Tail(cases))

\* The plans of Spec: up to MaxCases cases, up to MaxSteps steps in all.
RECURSIVE PlansOf(_, _)
PlansOf(ncases, nsteps) ==
    IF ncases = 0 THEN {<<>>}
    ELSE {<<>>} \cup
         { <<TestCase(id, neg, NumberedSteps(k))>> \o rest :
             id \in CaseIds, neg \in BOOLEAN, k \in 0..nsteps,
             rest \in PlansOf(ncases - 1, nsteps) }

\* Each case is named after its place in the plan file.
Named(cases) == [i \in 1..Len(cases) |-> [cases[i] EXCEPT !.name = "case" \o ToString(i)]]

Plans == { Named(p) : p \in { q \in PlansOf(MaxCases, MaxSteps) : TotalSteps(q) <= MaxSteps } }

\* The plans of SpecStep: one case holding one step of any shape.
SingleSteps ==
    { Step(1, params, auth) : params \in {PlainParameters, TmpParameters}, auth \in AuthConfigs }
    \cup { Step(1, CollidingParameters, auth) : auth \in {BasicAuth, TokenAuth} }
    \cup { StepWithoutNumber(PlainParameters, NoAuth) }

SingleStepPlans ==
    { Named(<<TestCase(1, neg, <<s>>)>>) : neg \in BOOLEAN, s \in SingleSteps }

\* A dict of a plan file with one key left out.
Drop(d, key) == [k \in (DOMAIN d) \ {key} |-> d[k]]

\* The fields validate_test_plan_structure requires of a case and of a step.
CaseRequired == {"id", "name", "description", "steps"}
StepRequired == {"step_number", "test_script", "test_function", "parameters"}

\* The plans of SpecFields: one case of one step, complete or with one
\* required field of the case or of the step left out of the file.
PlansWithMissingField ==
    LET step == Step(1, TmpParameters, NoAuth)
        case == Named(<<TestCase(1, FALSE, <<step>>)>>)[1]
    IN {<<case>>}
       \cup { <<Drop(case, f)>> : f \in CaseRequired }
       \cup { <<[case EXCEPT !.steps = <<Drop(step, f)>>]>> : f \in StepRequired }

\* ------------------------------------------------------ TmpAreaManager
\* The directory create_tmp_area composes: base path joined with execution id.
TmpPath == "/tmp/test_automation_framework/20240101_000000"

\* What create_tmp_area can meet: success; os.makedirs raising after
\* tmp_framework_path was assigned; an exception before the assignment (a
\* configured base path that os.path.join rejects).
CreateOutcomes == {"created", "makedirs_failed", "failed_before_path"}

\* TmpAreaManager.create_tmp_area: the manager's path, the directory and the
\* returncode of the result after the call.
create_tmp_area(path, exists, outcome) ==
    CASE outcome = "created" ->
            [tmp_framework_path |-> TmpPath, exists |-> TRUE, returncode |-> 0]
      [] outcome = "makedirs_failed" ->
            [tmp_framework_path |-> TmpPath, exists |-> exists, returncode |-> 2]
      [] OTHER ->
            [tmp_framework_path |-> path, exists |-> exists, returncode |-> 2]

\* cleanup_tmp_area running rmtree whether or not the directory is there.
cleanup_tmp_area_unguarded(path, exists, rmtree_ok) ==
    IF path # ""
    THEN IF exists /\ rmtree_ok
         THEN [exists |-> FALSE, returncode |-> 0, removed |-> TRUE]
         ELSE [exists |-> exists, returncode |-> 2, removed |-> FALSE]
    ELSE [exists |-> exists, returncode |-> 0, removed |-> FALSE]

\* TmpAreaManager.cleanup_tmp_area: rmtree runs only when the path is set and
\* the directory exists; rmtree_ok says whether it succeeds.
cleanup_tmp_area(path, exists, rmtree_ok) ==
    IF path # "" /\ exists
    THEN IF rmtree_ok
         THEN [exists |-> FALSE, returncode |-> 0, removed |-> TRUE]
         ELSE [exists |-> exists, returncode |-> 2, removed |-> FALSE]
    ELSE [exists |-> exists, returncode |-> 0, removed |-> FALSE]

\* str.replace("<tmp>", path) on the pieces of a string.
ReplaceTmp(pieces, path) ==
    [i \in 1..Len(pieces) |-> IF pieces[i] = "<tmp>" THEN path ELSE pieces[i]]

\* os.path.normpath on the pieces: repeated separators collapse, "." pieces
\* and a trailing separator go, ".." takes the piece before it with it.
RECURSIVE NormpathFrom(_, _)
NormpathFrom(done, rest) ==
    IF rest = <<>> THEN
        IF Len(done) > 1 /\ done[Len(done)] = "/" THEN SubSeq(done, 1, Len(done) - 1) ELSE done
    ELSE LET p == Head(rest) IN
        CASE p = "/" /\ done # <<>> /\ done[Len(done)] = "/" -> NormpathFrom(done, Tail(rest))
          [] p = "." -> NormpathFrom(done, IF Tail(rest) # <<>> /\ Head(Tail(rest)) = "/"
                                            THEN Tail(Tail(rest)) ELSE Tail(rest))
          [] p = ".." /\ Len(done) >= 2 /\ done[Len(done)] = "/" /\ done[Len(done) - 1] \notin {"/", ".."} ->
                NormpathFrom(SubSeq(done, 1, Len(done) - 2), Tail(rest))
          [] OTHER -> NormpathFrom(Append(done, p), Tail(rest))

normpath(pieces) ==
    LET n == NormpathFrom(<<>>, pieces) IN IF n = <<>> THEN <<".">> ELSE n

\* What an operator of the manager answers when the call raises: the text of
\* the exception in place of a value.
Raised(text) == [t |-> "raised", v |-> text]

TmpNotCreatedError == "Temporary area not created. Call create_tmp_area() first."

\* resolve_tmp_path with the check of the path left out.
resolve_tmp_path_unchecked(value, path) ==
    IF value.t = "str" /\ \E i \in 1..Len(value.v) : value.v[i] = "<tmp>"
    THEN StrVal(normpath(ReplaceTmp(value.v, path)))
    ELSE value

\* TmpAreaManager.resolve_tmp_path: ValueError for every value while the
\* manager's path is unset; else a string with <tmp> resolved, any other
\* value as it came.
resolve_tmp_path(value, path) ==
    IF path = "" THEN Raised(TmpNotCreatedError)
    ELSE IF value.t = "str" /\ \E i \in 1..Len(value.v) : value.v[i] = "<tmp>"
         THEN StrVal(normpath(ReplaceTmp(value.v, path)))
         ELSE value

\* TmpAreaManager.get_tmp_path: ValueError while the manager's path is unset,
\* else the path, whether or not the directory is there.
get_tmp_path(path) ==
    IF path = "" THEN Raised(TmpNotCreatedError) ELSE StrVal(<<path>>)

\* TmpAreaManager.process_parameters: a new tree; strings resolved, dicts
\* recursed into, and in a list only the items that are dicts or strings are
\* processed.  An exception of resolve_tmp_path leaves through every level.
RECURSIVE process_parameters(_, _)
process_parameters(parameters, path) ==
    IF parameters.t # "dict" THEN parameters
    ELSE LET processed_params == [k \in DOMAIN parameters.v |->
                LET value == parameters.v[k] IN
                CASE value.t = "str" -> resolve_tmp_path(value, path)
                  [] value.t = "dict" -> process_parameters(value, path)
                  [] value.t = "list" ->
                        LET items == [i \in 1..Len(value.v) |->
                                CASE value.v[i].t = "dict" -> process_parameters(value.v[i], path)
                                  [] value.v[i].t = "str" -> resolve_tmp_path(value.v[i], path)
                                  [] OTHER -> value.v[i]]
                        IN IF \E i \in 1..Len(items) : items[i].t = "raised"
                           THEN Raised(TmpNotCreatedError) ELSE ListVal(items)
                  [] OTHER -> value]
         IN IF \E k \in DOMAIN processed_params : processed_params[k].t = "raised"
            THEN Raised(TmpNotCreatedError) ELSE DictVal(processed_params)

\* Whether process_parameters calls resolve_tmp_path at all on this tree.
RECURSIVE CallsResolve(_)
CallsResolve(parameters) ==
    /\ parameters.t = "dict"
    /\ \E k \in DOMAIN parameters.v :
         LET value == parameters.v[k] IN
         \/ value.t = "str"
         \/ value.t = "dict" /\ CallsResolve(value)
         \/ value.t = "list" /\ \E i \in 1..Len(value.v) :
                \/ value.v[i].t = "str"
                \/ value.v[i].t = "dict" /\ CallsResolve(value.v[i])

\* ---------------------------------------------------- CredentialManager
\* The keyring holds, for the one service name used here, a dict from the
\* fields "username", "password", "token" to the stored secrets.
\* What the user does at the prompt: types values, types nothing, interrupts
\* (KeyboardInterrupt), or the input stream fails (EOFError).
PromptInputs == {"entered", "entered_empty", "cancelled", "eof"}

\* How the OS keyring behaves during one call: it works; get_password
\* raises; set_password raises; set_password raises at its second call (the
\* password of a basic entry); both raise.
KeyringStates == {"ok", "get_fails", "set_fails", "set_fails_at_password", "fails"}

GetWorks(keyring_state) == keyring_state \in {"ok", "set_fails", "set_fails_at_password"}
SetWorks(keyring_state) == keyring_state \in {"ok", "get_fails"}

\* CredentialManager.get_credentials: {} when the keyring raises.
get_credentials(keyring, auth_type, keyring_state) ==
    IF ~GetWorks(keyring_state) THEN EmptyDict
    ELSE CASE auth_type = "basic" ->
                IF Get(keyring, "username", "") # "" /\ Get(keyring, "password", "") # ""
                THEN [auth_username |-> keyring["username"],
                      auth_password |-> keyring["password"], auth_type |-> "basic"]
                ELSE EmptyDict
           [] auth_type = "token" ->
                IF Get(keyring, "token", "") # ""
                THEN [auth_token |-> keyring["token"], auth_type |-> "token"]
                ELSE EmptyDict
           [] OTHER -> EmptyDict

\* CredentialManager.store_credentials: whether it returns True, and the
\* keyring afterwards.  A basic entry is stored by two set_password calls:
\* when the second raises the username is already stored.
store_credentials(keyring, auth_type, username, password, token, keyring_state) ==
    CASE auth_type = "basic" ->
            IF username # "" /\ password # ""
            THEN CASE SetWorks(keyring_state) ->
                        [ok |-> TRUE,
                         keyring |-> Put(Put(keyring, "username", username), "password", password)]
                   [] keyring_state = "set_fails_at_password" ->
                        [ok |-> FALSE, keyring |-> Put(keyring, "username", username)]
                   [] OTHER -> [ok |-> FALSE, keyring |-> keyring]
            ELSE [ok |-> FALSE, keyring |-> keyring]
      [] auth_type = "token" ->
            IF token # ""
            THEN IF SetWorks(keyring_state)
                 THEN [ok |-> TRUE, keyring |-> Put(keyring, "token", token)]
                 ELSE [ok |-> FALSE, keyring |-> keyring]
            ELSE [ok |-> FALSE, keyring |-> keyring]
      [] OTHER -> [ok |-> FALSE, keyring |-> keyring]

\* CredentialManager.delete_credentials from the field at the head of fields
\* on: whether it returns True, and the keyring afterwards.  delete_password
\* raises PasswordDeleteError for a field that is not stored, which ends the
\* call with True (lines 200-202); any other exception ends it with False.
RECURSIVE delete_credentials(_, _, _)
delete_credentials(keyring, fields, keyring_state) ==
    IF fields = <<>> THEN [ok |-> TRUE, keyring |-> keyring]
    ELSE IF keyring_state # "ok" THEN [ok |-> FALSE, keyring |-> keyring]
    ELSE IF Head(fields) \notin DOMAIN keyring THEN [ok |-> TRUE, keyring |-> keyring]
    ELSE delete_credentials(Drop(keyring, Head(fields)), Tail(fields), keyring_state)

\* The fields delete_credentials deletes, in the order of lines 192-196.
DeletedFields == <<"username", "password", "token">>

\* CredentialManager.credential_exists: False when the keyring raises.
credential_exists(keyring, auth_type, keyring_state) ==
    IF ~GetWorks(keyring_state) THEN FALSE
    ELSE CASE auth_type = "basic" ->
                Get(keyring, "username", "") # "" /\ Get(keyring, "password", "") # ""
           [] auth_type = "token" -> Get(keyring, "token", "") # ""
           [] OTHER -> FALSE

\* What the user types when the prompt is answered with values.
Typed == "secret"

\* prompt_for_credentials letting the interrupt or the input error through.
prompt_for_credentials_uncaught(keyring, auth_type, prompt, keyring_state) ==
    [credentials |-> EmptyDict, keyring |-> keyring,
     raised |-> prompt \in {"cancelled", "eof"} /\ auth_type \in {"basic", "token"}]

\* prompt_for_credentials handing back what was typed without storing it.
prompt_for_credentials_unstored(keyring, auth_type, prompt, keyring_state) ==
    IF prompt \in {"cancelled", "eof"} \/ auth_type \notin {"basic", "token"}
    THEN [credentials |-> EmptyDict, keyring |-> keyring, raised |-> FALSE]
    ELSE LET typed == IF prompt = "entered" THEN Typed ELSE "" IN
         [credentials |->
             IF auth_type = "basic"
             THEN [auth_username |-> typed, auth_password |-> typed, auth_type |-> "basic"]
             ELSE [auth_token |-> typed, auth_type |-> "token"],
          keyring |-> keyring, raised |-> FALSE]

\* CredentialManager.prompt_for_credentials: the credentials returned, the
\* keyring afterwards, and whether an exception left the call (the interrupt
\* and every Exception are caught at lines 171-174).
prompt_for_credentials(keyring, auth_type, prompt, keyring_state) ==
    IF prompt \in {"cancelled", "eof"} \/ auth_type \notin {"basic", "token"}
    THEN [credentials |-> EmptyDict, keyring |-> keyring, raised |-> FALSE]
    ELSE LET typed == IF prompt = "entered" THEN Typed ELSE ""
             stored == store_credentials(keyring, auth_type, typed, typed, typed, keyring_state)
         IN IF stored.ok
            THEN [credentials |->
                    IF auth_type = "basic"
                    THEN [auth_username |-> typed, auth_password |-> typed, auth_type |-> "basic"]
                    ELSE [auth_token |-> typed, auth_type |-> "token"],
                  keyring |-> stored.keyring, raised |-> FALSE]
            ELSE [credentials |-> EmptyDict, keyring |-> stored.keyring, raised |-> FALSE]

\* resolve_authentication: the credentials, the keyring afterwards, whether
\* the keyring was looked up, whether the user was prompted and whether an
\* exception left the call.
resolve_authentication(auth_config, keyring, prompt, keyring_state) ==
    LET auth_type == Get(auth_config, "authentication_type", "")
        auth_name == Get(auth_config, "authentication_name", "")
    IN IF auth_config = EmptyDict \/ auth_type = "" \/ auth_name = ""
       THEN [credentials |-> EmptyDict, keyring |-> keyring,
             looked_up |-> FALSE, prompted |-> FALSE, raised |-> FALSE]
       ELSE LET credentials == get_credentials(keyring, auth_type, keyring_state) IN
            IF credentials # EmptyDict
            THEN [credentials |-> credentials, keyring |-> keyring,
                  looked_up |-> TRUE, prompted |-> FALSE, raised |-> FALSE]
            ELSE LET asked == prompt_for_credentials(keyring, auth_type, prompt, keyring_state) IN
                 [credentials |-> asked.credentials, keyring |-> asked.keyring,
                  looked_up |-> TRUE, prompted |-> TRUE, raised |-> asked.raised]

\* ------------------------------------------------- step function loader
\* What import_test_function meets at script_path: a file that defines the
\* function, no file, a file that does not load (exec_module raises, or no
\* loader is known for it), a file that loads and lacks the function.
LoaderOutcomes == {"found", "missing", "unloadable", "no_attribute"}

\* The file at script_path: what the loader meets there and, when the file
\* defines the function, which version of the file it is.
ScriptFile(kind, version) == [kind |-> kind, version |-> version]

\* Versions of a script file that defines the function.
ScriptVersions == {1, 2}

ScriptFiles ==
    { ScriptFile(kind, 0) : kind \in LoaderOutcomes \ {"found"} }
    \cup { ScriptFile("found", version) : version \in ScriptVersions }

\* The failure sentinel, None; a function is named by the version of the file
\* that was executed to define it.
Sentinel == 0

\* A loader that hands back something callable whatever it met.
import_test_function_always(script, sys_modules) ==
    [raised |-> FALSE, function |-> 1, executed |-> TRUE, sys_modules |-> sys_modules]

\* A loader that registers the module it loaded and reuses a registered one.
import_test_function_cached(script, sys_modules) ==
    IF "test_module" \in DOMAIN sys_modules
    THEN [raised |-> FALSE, function |-> sys_modules["test_module"], executed |-> FALSE,
          sys_modules |-> sys_modules]
    ELSE IF script.kind = "found"
         THEN [raised |-> FALSE, function |-> script.version, executed |-> TRUE,
               sys_modules |-> Put(sys_modules, "test_module", script.version)]
         ELSE [raised |-> FALSE, function |-> Sentinel,
               executed |-> script.kind # "missing", sys_modules |-> sys_modules]

\* A loader without the try of line 55: its exceptions leave the call.
import_test_function_unguarded(script, sys_modules) ==
    [raised |-> script.kind # "found",
     function |-> IF script.kind = "found" THEN script.version ELSE Sentinel,
     executed |-> script.kind # "missing", sys_modules |-> sys_modules]

\* TestAutomationFramework.import_test_function: whether an exception left
\* the call, the function returned (Sentinel for None), whether the file was
\* executed, and sys.modules afterwards: module_from_spec builds a new module
\* and nothing registers it.
import_test_function(script, sys_modules) ==
    [raised |-> FALSE,
     function |-> IF script.kind = "found" THEN script.version ELSE Sentinel,
     executed |-> script.kind # "missing",
     sys_modules |-> sys_modules]

\* ----------------------------------------------------- step functions
\* Returncodes a step function answers with.
ReturnCodes == {0, 5}

\* What the loaded function does when called with the keyword arguments.
FnBehaviours ==
    { [kind |-> k, returncode |-> 0] : k \in {"raises", "returns_not_a_map", "returns_map_without_returncode"} }
    \cup { [kind |-> "returns_map", returncode |-> r] : r \in ReturnCodes }

\* The map a well-behaved step function returns.
FunctionResult(fn) ==
    IF fn.kind = "returns_map"
    THEN [stdout |-> "", stderr |-> "", exception |-> "", returncode |-> fn.returncode]
    ELSE [stdout |-> "", stderr |-> "", exception |-> ""]

\* ------------------------------------------------------------ LogManager
\* LogManager.should_show_debug
should_show_debug(debug_level, step_result) ==
    CASE debug_level = 0 -> FALSE
      [] debug_level = 1 -> Get(step_result, "returncode", 1) # 0
      [] debug_level = 2 -> TRUE
      [] OTHER -> FALSE

\* LogManager.display_step_result: the status line printed and whether the
\* detail block follows it.
display_step_result(debug_level, step_result, is_negative_test) ==
    [status |-> IF is_negative_test
                THEN IF Get(step_result, "returncode", 0) # 0 THEN "PASSED" ELSE "FAILED"
                ELSE IF Get(step_result, "returncode", 1) = 0 THEN "PASSED" ELSE "FAILED",
     negative |-> is_negative_test,
     detail |-> should_show_debug(debug_level, step_result)]

\* ------------------------------------------------- execute_test_step
\* The inversion with original_returncode read after returncode was overwritten.
InvertReturncodeLate(result) ==
    LET inverted == IF Get(result, "returncode", 1) # 0 THEN 0 ELSE 1 IN
    Put(Put(Put(result, "returncode", inverted), "original_returncode", inverted),
        "is_negative_test", TRUE)

\* Lines 116-121: the returncode of a negative test is inverted, the original kept.
InvertReturncode(result) ==
    LET original_returncode == Get(result, "returncode", 1) IN
    Put(Put(Put(result, "returncode", IF original_returncode # 0 THEN 0 ELSE 1),
            "original_returncode", original_returncode),
        "is_negative_test", TRUE)

\* Lines 133-138: the result recorded when the loader gave no function.
ImportFailedResult ==
    [stdout |-> "", stderr |-> "Failed to import function fn",
     exception |-> "Function import failed", returncode |-> 3]

\* The failure result with the text of the exception left out.
ExceptionResultWithoutText(text) ==
    [stdout |-> "", stderr |-> "Execution error: ", exception |-> "", returncode |-> 4]

\* Lines 140-146: the result recorded when the try block raised.
ExceptionResult(text) ==
    [stdout |-> "", stderr |-> "Execution error: " \o text, exception |-> text, returncode |-> 4]

\* str(e) of the exceptions the try block can meet.
FunctionError == "boom"
NotAMapError == "object has no attribute 'get'"
NotADictError == "argument after ** must be a mapping"

\* str(e) of the KeyError of step[key] when the step has no such key.
KeyErrorText(key) == "'" \o key \o "'"

\* The first of the keys that the step lacks, "" when it has them all.
RECURSIVE FirstMissing(_, _)
FirstMissing(step, keys) ==
    IF keys = <<>> THEN ""
    ELSE IF Head(keys) \notin DOMAIN step THEN Head(keys)
         ELSE FirstMissing(step, Tail(keys))

\* A process_parameters that works on the dict it was given.
ProcessedObjectInPlace(parameters) == "caller"

\* Which object process_parameters returns: the dict built at line 196 of
\* tmp_area_library for a dict, the caller's own object for anything else
\* (lines 193-194).
ProcessedObject(parameters) == IF parameters.t = "dict" THEN "new" ELSE "caller"

\* Credentials as keyword arguments: each value is a string.
AsParameters(credentials) == [k \in DOMAIN credentials |-> StrVal(<<credentials[k]>>)]

\* TestAutomationFramework.execute_test_step.  env is what the step meets:
\* the loader's outcome, the function's behaviour, the user at the prompt and
\* how the keyring behaves.  The answer tells whether an exception left the
\* method (raised) and which (left), the Execution Record it returns
\* otherwise, the keyring afterwards, what was printed, and which
\* collaborators were called.
execute_test_step(step, test_case_name, is_negative_test, debug_level, path, keyring, sys_modules, env) ==
    LET step_result ==
            [test_case |-> test_case_name,
             step_number |-> Get(step, "step_number", "unknown"),
             test_script |-> Get(step, "test_script", "unknown"),
             test_function |-> Get(step, "test_function", "unknown"),
             parameters |-> Get(step, "parameters", DictVal(EmptyDict)),
             authentication |-> Get(step, "authentication", EmptyDict),
             is_negative_test |-> is_negative_test,
             result |-> EmptyDict]
        \* lines 94-97: step["test_script"], step["test_function"]
        missing_key == FirstMissing(step, <<"test_script", "test_function">>)
        imported == missing_key = ""
        loaded == import_test_function(ScriptFile(env.loader, IF env.loader = "found" THEN 1 ELSE 0),
                                       sys_modules)
        test_function == imported /\ loaded.function # Sentinel
        \* line 101: step["parameters"]
        missing_parameters == test_function /\ "parameters" \notin DOMAIN step
        parameters == Get(step, "parameters", DictVal(EmptyDict))
        process_called == test_function /\ ~missing_parameters
        processed_parameters == process_parameters(parameters, path)
        resolve_raises == process_called /\ processed_parameters.t = "raised"
        processed == process_called /\ ~resolve_raises
        auth_config == Get(step, "authentication", EmptyDict)
        auth == IF processed /\ auth_config # EmptyDict
                THEN resolve_authentication(auth_config, keyring, env.prompt, env.keyring_state)
                ELSE [credentials |-> EmptyDict, keyring |-> keyring,
                      looked_up |-> FALSE, prompted |-> FALSE]
        \* line 111: step['step_number'] in the message printed at debug level 1
        print_raises == /\ processed /\ auth.credentials # EmptyDict
                        /\ processed_parameters.t = "dict"
                        /\ debug_level >= 1 /\ "step_number" \notin DOMAIN step
        invoked == processed /\ processed_parameters.t = "dict" /\ ~print_raises
        \* the objects at hand: the caller's step["parameters"] and what
        \* process_parameters returned; line 109 updates the latter
        target == ProcessedObject(parameters)
        processed_objects ==
            IF processed THEN Put([caller |-> parameters], target, processed_parameters)
            ELSE [caller |-> parameters]
        merged == processed /\ auth.credentials # EmptyDict /\ processed_parameters.t = "dict"
        merged_objects ==
            IF merged
            THEN Put(processed_objects, target,
                     DictVal(Update(processed_objects[target].v, AsParameters(auth.credentials))))
            ELSE processed_objects
        kwargs == IF invoked THEN merged_objects[target].v ELSE EmptyDict
        \* the caller's step["parameters"] when the call is over, which
        \* step_result["parameters"] refers to
        parameters_after == merged_objects["caller"]
        \* the value left in step_result["result"]; not_a_map when the function's
        \* answer was stored as it came and is no dict
        not_a_map == invoked /\ env.fn.kind = "returns_not_a_map" /\ ~is_negative_test
        result ==
            CASE missing_key # "" -> ExceptionResult(KeyErrorText(missing_key))
              [] ~test_function -> ImportFailedResult
              [] missing_parameters -> ExceptionResult(KeyErrorText("parameters"))
              [] resolve_raises -> ExceptionResult(TmpNotCreatedError)
              [] print_raises -> ExceptionResult(KeyErrorText("step_number"))
              [] ~invoked -> ExceptionResult(NotADictError)
              [] env.fn.kind = "raises" -> ExceptionResult(FunctionError)
              [] env.fn.kind = "returns_not_a_map" ->
                    IF is_negative_test THEN ExceptionResult(NotAMapError) ELSE EmptyDict
              [] OTHER ->
                    IF is_negative_test THEN InvertReturncode(FunctionResult(env.fn))
                    ELSE FunctionResult(env.fn)
        returned_normally == invoked /\ env.fn.kind \in {"returns_map", "returns_map_without_returncode"}
        with_debug ==
            IF returned_normally /\ debug_level >= 2
            THEN LET d == Put(Put(step_result, "processed_parameters", DictVal(kwargs)),
                              "original_parameters", parameters_after)
                 IN IF auth_config # EmptyDict
                    THEN Put(d, "authentication_resolved", DOMAIN auth.credentials)
                    ELSE d
            ELSE step_result
        \* lines 149-154, outside the try block: step["step_number"] is read
        \* first, then display_step_result calls .get on the stored result
        left == CASE "step_number" \notin DOMAIN step -> "KeyError"
                  [] not_a_map -> "AttributeError"
                  [] OTHER -> ""
    IN [raised |-> left # "",
        left |-> left,
        step_result |-> Put(Put(with_debug, "result", result), "parameters",
                            IF "parameters" \in DOMAIN step THEN parameters_after
                            ELSE DictVal(EmptyDict)),
        step_parameters |-> parameters_after,
        credentials |-> auth.credentials,
        keyring |-> auth.keyring,
        console |-> IF left # "" THEN <<>>
                    ELSE <<display_step_result(debug_level, result, is_negative_test)>>,
        imported |-> imported,
        process_parameters_called |-> process_called,
        looked_up |-> auth.looked_up,
        prompted |-> auth.prompted,
        invoked |-> invoked,
        kwargs |-> kwargs,
        sys_modules |-> IF imported THEN loaded.sys_modules ELSE sys_modules]

\* --------------------------------------------------- JSONExecutionLogger
\* The characters _clean_filename replaces (line 320).
InvalidChars == {"<", ">", ":", "\"", "/", "\\", "|", "?", "*"}

\* Lines 325-326: runs of underscores become one underscore.
RECURSIVE CollapseUnderscores(_)
CollapseUnderscores(filename) ==
    IF Len(filename) < 2 THEN filename
    ELSE IF filename[1] = "_" /\ filename[2] = "_" THEN CollapseUnderscores(Tail(filename))
    ELSE <<filename[1]>> \o CollapseUnderscores(Tail(filename))

\* Line 329: strip(' _').
RECURSIVE Strip(_)
Strip(filename) ==
    IF filename = <<>> THEN filename
    ELSE IF filename[1] \in {" ", "_"} THEN Strip(Tail(filename))
    ELSE IF filename[Len(filename)] \in {" ", "_"}
         THEN Strip(SubSeq(filename, 1, Len(filename) - 1))
    ELSE filename

\* JSONExecutionLogger._clean_filename, on names short of the 100 characters
\* of line 332.
clean_filename(filename) ==
    Strip(CollapseUnderscores(
        [i \in 1..Len(filename) |-> IF filename[i] \in InvalidChars THEN "_" ELSE filename[i]]))

\* Lines 295-298: the file of the log, named after the cleaned plan name and
\* the minute of the clock.
LogFileName(plan_name, minute) == <<clean_filename(plan_name), minute>>

\* The minutes the clock can show when a log is saved: that of the newest log
\* file or the one after it.
Minutes(files) ==
    IF files = <<>> THEN {1}
    ELSE LET last == CHOOSE m \in { files[i].file[2] : i \in 1..Len(files) } :
                        \A i \in 1..Len(files) : files[i].file[2] <= m
         IN {last, last + 1}

\* Lines 301-304: open(filepath, 'w') and json.dump: a file of that name is
\* replaced, any other file stays.
SaveLog(files, file, data) ==
    IF \E i \in 1..Len(files) : files[i].file = file
    THEN [i \in 1..Len(files) |->
            IF files[i].file = file THEN [file |-> file, data |-> data] ELSE files[i]]
    ELSE Append(files, [file |-> file, data |-> data])

\* JSONExecutionLogger.start_execution: the fresh current_execution_data.
start_execution(plan_name, plan_file) ==
    [test_plan |-> plan_file, test_plan_name |-> plan_name,
     results |-> [total_steps |-> 0, passed_steps |-> 0, failed_steps |-> 0],
     detailed_results |-> <<>>]

\* add_step_result taking a result without returncode for a success.
add_step_result_default_zero(data, step_result) ==
    IF data = EmptyDict THEN data
    ELSE LET passed == Get(step_result.result, "returncode", 0) = 0 IN
         [data EXCEPT
            !.results.total_steps = @ + 1,
            !.results.passed_steps = IF passed THEN @ + 1 ELSE @,
            !.results.failed_steps = IF passed THEN @ ELSE @ + 1,
            !.detailed_results = Append(@,
                [test_case |-> Get(step_result, "test_case", "unknown"),
                 step_number |-> Get(step_result, "step_number", "unknown"),
                 status |-> IF passed THEN "PASSED" ELSE "FAILED",
                 returncode |-> Get(step_result.result, "returncode", 1),
                 stdout |-> Get(step_result.result, "stdout", ""),
                 stderr |-> Get(step_result.result, "stderr", ""),
                 exception |-> Get(step_result.result, "exception", "")])]

\* JSONExecutionLogger.add_step_result on current_execution_data (None is the
\* empty dict: nothing is added then).
add_step_result(data, step_result) ==
    IF data = EmptyDict THEN data
    ELSE LET passed == Get(step_result.result, "returncode", 1) = 0
             detailed_result ==
                 [test_case |-> Get(step_result, "test_case", "unknown"),
                  step_number |-> Get(step_result, "step_number", "unknown"),
                  status |-> IF passed THEN "PASSED" ELSE "FAILED",
                  returncode |-> Get(step_result.result, "returncode", 1),
                  stdout |-> Get(step_result.result, "stdout", ""),
                  stderr |-> Get(step_result.result, "stderr", ""),
                  exception |-> Get(step_result.result, "exception", "")]
         IN [data EXCEPT
               !.results.total_steps = @ + 1,
               !.results.passed_steps = IF passed THEN @ + 1 ELSE @,
               !.results.failed_steps = IF passed THEN @ ELSE @ + 1,
               !.detailed_results = Append(@, detailed_result)]

\* The records of a case added last first.
RECURSIVE AddStepResultsBackwards(_, _)
AddStepResultsBackwards(data, records) ==
    IF records = <<>> THEN data
    ELSE add_step_result(AddStepResultsBackwards(data, Tail(records)), Head(records))

\* add_step_result for each record of a case, in order (lines 223-224).
RECURSIVE AddStepResults(_, _)
AddStepResults(data, records) ==
    IF records = <<>> THEN data
    ELSE AddStepResults(add_step_result(data, Head(records)), Tail(records))

\* What finish_execution meets: the file is written; open or json.dump raise
\* (caught, None returned); os.makedirs raises (nothing catches it).
FinishOutcomes == {"saved", "write_failed", "makedirs_raised"}

\* ------------------------------------------------ execute_test_plan
\* The selection with the filter left out.
CasesToExecuteUnfiltered(cases, filter, i) == [k \in 1..(Len(cases) + 1 - i) |-> k + i - 1]

\* Lines 205-210: the indices of the cases to execute, in plan order.
RECURSIVE CasesToExecute(_, _, _)
CasesToExecute(cases, filter, i) ==
    IF i > Len(cases) THEN <<>>
    ELSE IF filter = NoFilter \/ Get(cases[i], "id", NoFilter) = filter
         THEN <<i>> \o CasesToExecute(cases, filter, i + 1)
         ELSE CasesToExecute(cases, filter, i + 1)

\* Lines 227-229: total_steps and passed_steps of the plan summary.
RECURSIVE PassedSteps(_)
PassedSteps(records) ==
    IF records = <<>> THEN 0
    ELSE (IF Get(Head(records).result, "returncode", 1) = 0 THEN 1 ELSE 0)
         + PassedSteps(Tail(records))

GenerateSummaryOf(records) ==
    [total_steps |-> Len(records), passed_steps |-> PassedSteps(records),
     failed_steps |-> Len(records) - PassedSteps(records)]

VARIABLES
    plan,                \* test_cases of the plan file at plan_path
    test_plan_name,      \* the name field of the plan file at plan_path
    test_plan_files,     \* run_all_test_plans: the files of its loop still to come
    test_case_id,        \* self.test_case_id, NoFilter for None
    debug_level,         \* self.debug_level
    pc,                  \* where execute_test_plan stands
    tmp_framework_path,  \* TmpAreaManager.tmp_framework_path, "" for None
    tmp_dir_exists,      \* whether the directory at TmpPath exists
    keyring,             \* the OS keyring's fields for the service
    sys_modules,         \* sys.modules: the modules registered by name
    json_logger,         \* JSONExecutionLogger.current_execution_data, {} for None
    log_files,           \* the log files written, oldest first
    plan_results,        \* the local plan_results of execute_test_plan
    test_cases_to_execute, \* indices into plan of the selected cases
    case_index,          \* position of the for loop of line 218
    step_index,          \* position of the for loop of line 168
    case_results,        \* the local case_results of execute_test_case
    summary,             \* what display_test_plan_summary was given
    results,             \* self.results
    returned,            \* what execute_test_plan returned: "", "None", "plan_results"
    trace,               \* the calls made so far, in order
    step_calls,          \* what each execute_test_step call met and did, in order
    active_executions,   \* TestExecutionManager.active_executions: the ids registered
    websocket_connections, \* TestExecutionManager.websocket_connections: the ids registered
    process,             \* the child of the relay: its state and the lines still to read
    stream_tasks,        \* the tasks reading the child's stdout and stderr
    websocket            \* the client's connection: "open" or "closed"

vars == <<plan, test_plan_name, test_plan_files, test_case_id, debug_level, pc, tmp_framework_path, tmp_dir_exists,
          keyring, sys_modules, json_logger, log_files, plan_results, test_cases_to_execute,
          case_index, step_index, case_results, summary, results, returned, trace,
          step_calls, active_executions, websocket_connections, process, stream_tasks,
          websocket>>

\* The web relay's variables.
web_vars == <<active_executions, websocket_connections, process, stream_tasks, websocket>>

\* One call in the trace.
Event(op, c, s, info) == [op |-> op, case |-> c, step |-> s, info |-> info]

\* Debug levels the command line accepts.
DebugLevels == {0, 1, 2}

\* Keyrings a step can find: empty, a basic entry, a token entry, a username alone.
Keyrings ==
    { EmptyDict, [username |-> "alice", password |-> "pw"], [token |-> "tok"],
      [username |-> "alice"] }

\* Keyrings a client of the credential library can find: those, and the one
\* that holds a token next to a basic entry.
StoredKeyrings ==
    Keyrings \cup { [username |-> "alice", password |-> "pw", token |-> "tok"] }

\* The relay before subprocess.Popen and before _stream_output.
NoProcess == [state |-> "none", returncode |-> 0, STDOUT |-> 0, STDERR |-> 0]
NoTasks == [STDOUT |-> "none", STDERR |-> "none"]

\* The same process wherever it stands.
FreshState ==
    /\ active_executions = {}
    /\ websocket_connections = {}
    /\ process = NoProcess
    /\ stream_tasks = NoTasks
    /\ websocket = "open"
    /\ sys_modules = EmptyDict
    /\ tmp_framework_path = ""
    /\ tmp_dir_exists = FALSE
    /\ json_logger = EmptyDict
    /\ log_files = <<>>
    /\ plan_results = EmptyDict
    /\ test_cases_to_execute = <<>>
    /\ case_index = 1
    /\ step_index = 1
    /\ case_results = <<>>
    /\ summary = EmptyDict
    /\ results = <<>>
    /\ returned = ""
    /\ trace = <<>>
    /\ step_calls = <<>>

\* The engine, the temp-area manager and the disk of a process that has just
\* started, at the first line of execute_test_plan.
FreshProcess ==
    /\ pc = "load_test_plan"
    /\ FreshState

\* The state when execute_test_plan is entered in a fresh process.
InitWith(plans, filters, levels, keyrings) ==
    /\ plan \in plans
    /\ test_case_id \in filters
    /\ debug_level \in levels
    /\ keyring \in keyrings
    /\ test_plan_name = DefaultPlanName
    /\ test_plan_files = <<>>
    /\ FreshProcess

\* Plans of up to MaxCases cases, with and without a filter.  Only the filter
\* reads a case's id, so the plans run without a filter carry one id throughout.
Init ==
    /\ InitWith(Plans, {NoFilter, 1}, {0}, {EmptyDict})
    /\ test_case_id = NoFilter => \A i \in 1..Len(plan) : plan[i].id = 1

\* Plans of one step of every shape, every debug level and keyring.
InitStep == InitWith(SingleStepPlans, {NoFilter}, DebugLevels, Keyrings)

\* Plans that lack a required field of a case or of a step.
InitFields == InitWith(PlansWithMissingField, {NoFilter, 1}, {0}, {EmptyDict})

\* What load_test_plan meets at plan_path: a JSON object with name and
\* test_cases; no readable file; text that is no JSON; an object without name;
\* an object without test_cases.
LoadOutcomes == {"loaded", "unreadable", "malformed_json", "missing_name", "missing_test_cases"}

\* A load_test_plan that hands back whatever it read.
load_test_plan_unchecked(outcome) == outcome \in {"loaded", "missing_name", "missing_test_cases"}

\* TestAutomationFramework.load_test_plan: TRUE when the plan comes back, FALSE
\* for None.  Only the two fields of the plan itself are looked at.
load_test_plan(outcome) == outcome = "loaded"

\* Lines 176-178: load_test_plan; a plan that does not load ends the call.
LoadTestPlan ==
    /\ pc = "load_test_plan"
    /\ \E outcome \in LoadOutcomes :
         LET loads == load_test_plan(outcome) IN
         /\ pc' = IF loads THEN "start_execution" ELSE "done"
         /\ returned' = IF loads THEN returned ELSE "None"
         /\ trace' = Append(trace, Event("load_test_plan", 0, 0,
                                         [loads |-> loads, outcome |-> outcome]))
    /\ UNCHANGED <<web_vars, sys_modules, plan, test_plan_name, test_plan_files, test_case_id, debug_level, tmp_framework_path, tmp_dir_exists,
                   keyring, json_logger, log_files, plan_results, test_cases_to_execute,
                   case_index, step_index, case_results, summary, results, step_calls>>

\* Lines 181-183: the JSON logger is created and started.
StartExecution ==
    /\ pc = "start_execution"
    /\ json_logger' = start_execution(test_plan_name, "plan.json")
    /\ trace' = Append(trace, Event("start_execution", 0, 0, EmptyDict))
    /\ pc' = "create_tmp_area"
    /\ UNCHANGED <<web_vars, sys_modules, plan, test_plan_name, test_plan_files, test_case_id, debug_level, tmp_framework_path, tmp_dir_exists,
                   keyring, log_files, plan_results, test_cases_to_execute,
                   case_index, step_index, case_results, summary, results, returned, step_calls>>

\* Lines 186-202: create_tmp_area, then the empty plan_results.
CreateTmpArea ==
    /\ pc = "create_tmp_area"
    /\ \E outcome \in CreateOutcomes :
       \E tmp_result \in { create_tmp_area(tmp_framework_path, tmp_dir_exists, outcome) } :
         /\ tmp_framework_path' = tmp_result.tmp_framework_path
         /\ tmp_dir_exists' = tmp_result.exists
         /\ plan_results' =
                [plan_name |-> test_plan_name, plan_path |-> "plan.json",
                 tmp_area_info |-> [tmp_path |-> tmp_result.tmp_framework_path,
                                    creation_result |-> tmp_result.returncode],
                 test_cases |-> <<>>]
         /\ trace' = Append(trace, Event("create_tmp_area", 0, 0,
                                         [returncode |-> tmp_result.returncode]))
    /\ pc' = "filter"
    /\ UNCHANGED <<web_vars, sys_modules, plan, test_plan_name, test_plan_files, test_case_id, debug_level, keyring, json_logger, log_files,
                   test_cases_to_execute, case_index, step_index, case_results,
                   summary, results, returned, step_calls>>

\* Lines 205-216: the filter; with a filter that selects nothing the temp area
\* is cleaned up and plan_results returned at once.
FilterTestCases ==
    /\ pc = "filter"
    /\ LET selected == CasesToExecute(plan, test_case_id, 1) IN
       /\ test_cases_to_execute' = selected
       /\ IF test_case_id # NoFilter /\ selected = <<>>
          THEN \E rmtree_ok \in BOOLEAN :
               \E cleaned \in { cleanup_tmp_area(tmp_framework_path, tmp_dir_exists, rmtree_ok) } :
                 /\ tmp_dir_exists' = cleaned.exists
                 /\ trace' = Append(trace, Event("cleanup_tmp_area", 0, 0,
                                                 [returncode |-> cleaned.returncode]))
                 /\ returned' = "plan_results"
                 /\ pc' = "done"
          ELSE /\ pc' = IF selected = <<>> THEN "finish_execution" ELSE "case_start"
               /\ UNCHANGED <<tmp_dir_exists, trace, returned>>
    /\ case_index' = 1
    /\ UNCHANGED <<web_vars, sys_modules, plan, test_plan_name, test_plan_files, test_case_id, debug_level, tmp_framework_path, keyring,
                   json_logger, log_files, plan_results, step_index, case_results,
                   summary, results, step_calls>>

\* The case the loop of line 218 is at.
CurrentCase == plan[test_cases_to_execute[case_index]]

\* Lines 161-166: execute_test_case up to its loop.  display_test_case_start
\* reads test_case['name'] (log_library line 110): a case without a name
\* raises KeyError there, and nothing catches it.
ExecuteTestCaseStart ==
    /\ pc = "case_start"
    /\ trace' = Append(trace, Event("display_test_case_start",
                                    test_cases_to_execute[case_index], 0, EmptyDict))
    /\ case_results' = <<>>
    /\ step_index' = 1
    /\ pc' = CASE "name" \notin DOMAIN CurrentCase -> "raised"
                [] Get(CurrentCase, "steps", <<>>) = <<>> -> "case_end"
                [] OTHER -> "step"
    /\ UNCHANGED <<web_vars, sys_modules, plan, test_plan_name, test_plan_files, test_case_id, debug_level, tmp_framework_path, tmp_dir_exists,
                   keyring, json_logger, log_files, plan_results, test_cases_to_execute,
                   case_index, summary, results, returned, step_calls>>

\* In the trace, the behaviour of a function that was not called.
NoFunction == [kind |-> "not_called", returncode |-> 0]

\* The loop of execute_test_case given up at the first record that failed.
NextInCaseFailFast(step_result, index, nsteps) ==
    IF index = nsteps \/ Get(step_result.result, "returncode", 1) # 0 THEN "case_end" ELSE "step"

\* Lines 168-170: where the loop of execute_test_case goes once a step's record
\* is appended; the record plays no part in it.
NextInCase(step_result, index, nsteps) == IF index = nsteps THEN "case_end" ELSE "step"

\* The step the loop of line 168 is at.
CurrentStep == Get(CurrentCase, "steps", <<>>)[step_index]

\* What the current step can meet.  The function's behaviour matters only when
\* the loader found it, the prompt and the keyring only when the step names an
\* authentication.
StepEnvironmentsOf(step) ==
    LET with_auth == Get(step, "authentication", EmptyDict) # EmptyDict IN
    { [loader |-> loader, fn |-> fn, prompt |-> prompt, keyring_state |-> keyring_state] :
        loader \in {"found"}, fn \in FnBehaviours,
        prompt \in IF with_auth THEN PromptInputs ELSE {"entered"},
        keyring_state \in IF with_auth THEN KeyringStates ELSE {"ok"} }
    \cup
    { [loader |-> loader, fn |-> [kind |-> "raises", returncode |-> 0],
       prompt |-> "entered", keyring_state |-> "ok"] :
        loader \in LoaderOutcomes \ {"found"} }

StepEnvironments == StepEnvironmentsOf(CurrentStep)

\* Lines 169-170: one execute_test_step and the append of its record.  An
\* exception that leaves execute_test_step leaves execute_test_plan too.
ExecuteTestStep ==
    /\ pc = "step"
    /\ \E env \in StepEnvironments :
       \E out \in { execute_test_step(CurrentStep, CurrentCase.name,
                        Get(CurrentCase, "negative_test", FALSE), debug_level,
                        tmp_framework_path, keyring, sys_modules, env) } :
         /\ keyring' = out.keyring
         /\ sys_modules' = out.sys_modules
         /\ plan' = IF "parameters" \in DOMAIN CurrentStep
                    THEN [plan EXCEPT ![test_cases_to_execute[case_index]].steps[step_index].parameters =
                                         out.step_parameters]
                    ELSE plan
         /\ trace' = Append(trace, Event("execute_test_step",
                        test_cases_to_execute[case_index], step_index, EmptyDict))
         /\ step_calls' = Append(step_calls,
                        [case |-> test_cases_to_execute[case_index], step |-> step_index,
                         raised |-> out.raised, left |-> out.left,
                         loader |-> env.loader, imported |-> out.imported,
                         loaded_parameters |-> Get(CurrentStep, "parameters", DictVal(EmptyDict)),
                         step_parameters |-> out.step_parameters,
                         credentials |-> out.credentials,
                         path |-> tmp_framework_path,
                         process_parameters_called |-> out.process_parameters_called,
                         looked_up |-> out.looked_up, prompted |-> out.prompted,
                         invoked |-> out.invoked, kwargs |-> out.kwargs,
                         fn |-> IF out.invoked THEN env.fn ELSE NoFunction,
                         result |-> out.step_result.result,
                         console |-> out.console])
         /\ IF out.raised
            THEN /\ pc' = "raised"
                 /\ UNCHANGED <<case_results, step_index>>
            ELSE /\ case_results' = Append(case_results, out.step_result)
                 /\ step_index' = step_index + 1
                 /\ pc' = NextInCase(out.step_result, step_index,
                                      Len(Get(CurrentCase, "steps", <<>>)))
    /\ UNCHANGED <<web_vars, test_plan_name, test_plan_files, test_case_id, debug_level, tmp_framework_path, tmp_dir_exists,
                   json_logger, log_files, plan_results, test_cases_to_execute,
                   case_index, summary, results, returned>>

\* Lines 220-224: the case's records join plan_results and the JSON logger.
ExecuteTestCaseEnd ==
    /\ pc = "case_end"
    /\ plan_results' = [plan_results EXCEPT !.test_cases = @ \o case_results]
    /\ json_logger' = AddStepResults(json_logger, case_results)
    /\ case_results' = <<>>
    /\ case_index' = case_index + 1
    /\ pc' = IF case_index = Len(test_cases_to_execute) THEN "finish_execution" ELSE "case_start"
    /\ UNCHANGED <<web_vars, sys_modules, plan, test_plan_name, test_plan_files, test_case_id, debug_level, tmp_framework_path, tmp_dir_exists,
                   keyring, log_files, test_cases_to_execute, step_index,
                   summary, results, returned, trace, step_calls>>

\* Lines 227-237: the totals handed to display_test_plan_summary, then
\* finish_execution writes the log file.
FinishExecution ==
    /\ pc = "finish_execution"
    /\ summary' = GenerateSummaryOf(plan_results.test_cases)
    /\ \E outcome \in FinishOutcomes, minute \in Minutes(log_files) :
         LET saved == json_logger # EmptyDict /\ outcome = "saved"
             file == IF saved THEN LogFileName(json_logger.test_plan_name, minute) ELSE <<>>
         IN
         /\ outcome # "saved" => minute = CHOOSE m \in Minutes(log_files) : TRUE
         /\ log_files' = IF saved THEN SaveLog(log_files, file, json_logger) ELSE log_files
         /\ trace' = Append(trace, Event("finish_execution", 0, 0,
                                         [outcome |-> outcome, file |-> file]))
         /\ pc' = IF json_logger # EmptyDict /\ outcome = "makedirs_raised"
                  THEN "raised" ELSE "cleanup_tmp_area"
    /\ UNCHANGED <<web_vars, sys_modules, plan, test_plan_name, test_plan_files, test_case_id, debug_level, tmp_framework_path, tmp_dir_exists,
                   keyring, json_logger, plan_results, test_cases_to_execute,
                   case_index, step_index, case_results, results, returned, step_calls>>

\* Lines 240-245: cleanup_tmp_area after the run; the summary joins
\* self.results and is returned.
CleanupTmpArea ==
    /\ pc = "cleanup_tmp_area"
    /\ \E rmtree_ok \in BOOLEAN :
       \E cleaned \in { cleanup_tmp_area(tmp_framework_path, tmp_dir_exists, rmtree_ok) } :
         /\ tmp_dir_exists' = cleaned.exists
         /\ trace' = Append(trace, Event("cleanup_tmp_area", 0, 0,
                                         [returncode |-> cleaned.returncode]))
    /\ results' = Append(results, plan_results)
    /\ returned' = "plan_results"
    /\ pc' = "done"
    /\ UNCHANGED <<web_vars, sys_modules, plan, test_plan_name, test_plan_files, test_case_id, debug_level, tmp_framework_path, keyring,
                   json_logger, log_files, plan_results, test_cases_to_execute,
                   case_index, step_index, case_results, summary, step_calls>>

Next ==
    \/ LoadTestPlan
    \/ StartExecution
    \/ CreateTmpArea
    \/ FilterTestCases
    \/ ExecuteTestCaseStart
    \/ ExecuteTestStep
    \/ ExecuteTestCaseEnd
    \/ FinishExecution
    \/ CleanupTmpArea

\* execute_test_plan on the plans of up to MaxCases cases.
Spec == Init /\ [][Next]_vars

\* execute_test_plan on the plans of one step, every shape of step.
SpecStep == InitStep /\ [][Next]_vars

\* execute_test_plan on the plans that lack a required field.
SpecFields == InitFields /\ [][Next]_vars

\* ------------------------------------- a client of the TmpAreaManager
\* A program that uses the temp-area manager of a fresh process directly:
\* create_tmp_area and cleanup_tmp_area in any order, up to MaxCalls of them,
\* and at last one resolve_tmp_path, one process_parameters or one
\* execute_test_step on the manager as it then is.
InitTmp ==
    /\ plan = <<>>
    /\ test_plan_name = DefaultPlanName
    /\ test_plan_files = <<>>
    /\ test_case_id = NoFilter
    /\ debug_level = 0
    /\ keyring = EmptyDict
    /\ pc = "tmp_manager"
    /\ FreshState

\* create_tmp_area() of tmp_area_library.
TmpCreate ==
    /\ pc = "tmp_manager"
    /\ Len(trace) < MaxCalls
    /\ \E outcome \in CreateOutcomes :
       \E tmp_result \in { create_tmp_area(tmp_framework_path, tmp_dir_exists, outcome) } :
         /\ tmp_framework_path' = tmp_result.tmp_framework_path
         /\ tmp_dir_exists' = tmp_result.exists
         /\ trace' = Append(trace, Event("create_tmp_area", 0, 0,
                                         [returncode |-> tmp_result.returncode]))
    /\ UNCHANGED <<web_vars, sys_modules, plan, test_plan_name, test_plan_files, test_case_id, debug_level, pc, keyring,
                   json_logger, log_files, plan_results, test_cases_to_execute,
                   case_index, step_index, case_results, summary, results, returned,
                   step_calls>>

\* cleanup_tmp_area() of tmp_area_library.
TmpCleanup ==
    /\ pc = "tmp_manager"
    /\ Len(trace) < MaxCalls
    /\ \E rmtree_ok \in BOOLEAN :
       \E cleaned \in { cleanup_tmp_area(tmp_framework_path, tmp_dir_exists, rmtree_ok) } :
         /\ tmp_dir_exists' = cleaned.exists
         /\ trace' = Append(trace, Event("cleanup_tmp_area", 0, 0,
                                         [returncode |-> cleaned.returncode,
                                          removed |-> cleaned.removed,
                                          existed |-> tmp_dir_exists]))
    /\ UNCHANGED <<web_vars, sys_modules, plan, test_plan_name, test_plan_files, test_case_id, debug_level, pc,
                   tmp_framework_path, keyring, json_logger, log_files, plan_results,
                   test_cases_to_execute, case_index, step_index, case_results,
                   summary, results, returned, step_calls>>

\* resolve_tmp_path(value) of tmp_area_library.
TmpResolve ==
    /\ pc = "tmp_manager"
    /\ \E n \in 1..Len(Leaves) :
         LET value == Leaves[n] IN
         trace' = Append(trace, Event("resolve_tmp_path", 0, 0,
                                      [input |-> value,
                                       output |-> resolve_tmp_path(value, tmp_framework_path)]))
    /\ pc' = "done"
    /\ UNCHANGED <<web_vars, sys_modules, plan, test_plan_name, test_plan_files, test_case_id, debug_level, tmp_framework_path,
                   tmp_dir_exists, keyring, json_logger, log_files, plan_results,
                   test_cases_to_execute, case_index, step_index, case_results,
                   summary, results, returned, step_calls>>

\* get_tmp_path() of tmp_area_library.
TmpGetPath ==
    /\ pc = "tmp_manager"
    /\ trace' = Append(trace, Event("get_tmp_path", 0, 0,
                                    [output |-> get_tmp_path(tmp_framework_path)]))
    /\ pc' = "done"
    /\ UNCHANGED <<web_vars, sys_modules, plan, test_plan_name, test_plan_files, test_case_id, debug_level, tmp_framework_path,
                   tmp_dir_exists, keyring, json_logger, log_files, plan_results,
                   test_cases_to_execute, case_index, step_index, case_results,
                   summary, results, returned, step_calls>>

\* process_parameters(parameters) of tmp_area_library.
TmpProcess ==
    /\ pc = "tmp_manager"
    /\ \E n \in 1..Len(ParameterTrees) :
         LET parameters == ParameterTrees[n] IN
         trace' = Append(trace, Event("process_parameters", 0, 0,
                                      [input |-> parameters,
                                       output |-> process_parameters(parameters, tmp_framework_path)]))
    /\ pc' = "done"
    /\ UNCHANGED <<web_vars, sys_modules, plan, test_plan_name, test_plan_files, test_case_id, debug_level, tmp_framework_path,
                   tmp_dir_exists, keyring, json_logger, log_files, plan_results,
                   test_cases_to_execute, case_index, step_index, case_results,
                   summary, results, returned, step_calls>>

\* The steps the client hands to execute_test_step.
ClientSteps ==
    { Step(1, PlainParameters, NoAuth), Step(1, TmpParameters, NoAuth),
      StepWithoutNumber(TmpParameters, NoAuth) }

\* execute_test_step called on the engine directly, whatever the manager's state.
TmpStep ==
    /\ pc = "tmp_manager"
    /\ \E step \in ClientSteps, is_negative_test \in BOOLEAN :
       \E env \in StepEnvironmentsOf(step) :
       \E out \in { execute_test_step(step, "case1", is_negative_test, debug_level,
                                      tmp_framework_path, keyring, sys_modules, env) } :
         /\ keyring' = out.keyring
         /\ sys_modules' = out.sys_modules
         /\ trace' = Append(trace, Event("execute_test_step", 0, 0, [step |-> step]))
         /\ step_calls' = Append(step_calls,
                        [case |-> 0, step |-> 0,
                         raised |-> out.raised, left |-> out.left,
                         loader |-> env.loader, imported |-> out.imported,
                         loaded_parameters |-> Get(step, "parameters", DictVal(EmptyDict)),
                         step_parameters |-> out.step_parameters,
                         credentials |-> out.credentials,
                         path |-> tmp_framework_path,
                         process_parameters_called |-> out.process_parameters_called,
                         looked_up |-> out.looked_up, prompted |-> out.prompted,
                         invoked |-> out.invoked, kwargs |-> out.kwargs,
                         fn |-> IF out.invoked THEN env.fn ELSE NoFunction,
                         result |-> out.step_result.result,
                         console |-> out.console])
         /\ pc' = IF out.raised THEN "raised" ELSE "done"
    /\ UNCHANGED <<web_vars, plan, test_plan_name, test_plan_files, test_case_id, debug_level, tmp_framework_path,
                   tmp_dir_exists, json_logger, log_files, plan_results,
                   test_cases_to_execute, case_index, step_index, case_results,
                   summary, results, returned>>

NextTmp ==
    \/ TmpCreate
    \/ TmpCleanup
    \/ TmpResolve
    \/ TmpGetPath
    \/ TmpProcess
    \/ TmpStep

SpecTmp == InitTmp /\ [][NextTmp]_vars

\* ---------------------------------------------- client of credential_library
\* A process that calls resolve_authentication of the global credential
\* manager, on a keyring that holds any of the entries.
InitCred ==
    /\ plan = <<>>
    /\ test_plan_name = DefaultPlanName
    /\ test_plan_files = <<>>
    /\ test_case_id = NoFilter
    /\ debug_level = 0
    /\ keyring \in StoredKeyrings
    /\ pc = "credential_manager"
    /\ FreshState

\* resolve_authentication(auth_config) of credential_library.
CredResolve ==
    /\ pc = "credential_manager"
    /\ Len(trace) < MaxResolves
    /\ \E auth_config \in AuthConfigs, prompt \in PromptInputs,
          keyring_state \in KeyringStates :
       \E auth \in { resolve_authentication(auth_config, keyring, prompt, keyring_state) } :
         /\ keyring' = auth.keyring
         /\ trace' = Append(trace, Event("resolve_authentication", 0, 0,
                        [auth_config |-> auth_config, prompt |-> prompt,
                         keyring_state |-> keyring_state,
                         keyring_before |-> keyring, keyring_after |-> auth.keyring,
                         credentials |-> auth.credentials,
                         looked_up |-> auth.looked_up, prompted |-> auth.prompted,
                         raised |-> auth.raised]))
         /\ pc' = IF auth.raised THEN "raised" ELSE pc
    /\ UNCHANGED <<web_vars, sys_modules, plan, test_plan_name, test_plan_files, test_case_id, debug_level, tmp_framework_path,
                   tmp_dir_exists, json_logger, log_files, plan_results,
                   test_cases_to_execute, case_index, step_index, case_results,
                   summary, results, returned, step_calls>>

\* delete_credentials(auth_name) of the global credential manager.
CredDelete ==
    /\ pc = "credential_manager"
    /\ Len(trace) < MaxResolves
    /\ \E keyring_state \in {"ok", "fails"} :
       \E deleted \in { delete_credentials(keyring, DeletedFields, keyring_state) } :
         /\ keyring' = deleted.keyring
         /\ trace' = Append(trace, Event("delete_credentials", 0, 0,
                        [keyring_state |-> keyring_state, returned |-> deleted.ok,
                         keyring_before |-> keyring, keyring_after |-> deleted.keyring]))
    /\ UNCHANGED <<web_vars, sys_modules, plan, test_plan_name, test_plan_files, test_case_id, debug_level, pc,
                   tmp_framework_path, tmp_dir_exists, json_logger, log_files, plan_results,
                   test_cases_to_execute, case_index, step_index, case_results,
                   summary, results, returned, step_calls>>

NextCred ==
    \/ CredResolve
    \/ CredDelete

SpecCred == InitCred /\ [][NextCred]_vars

\* ------------------------------------------------------ client of the loader
\* A process that calls import_test_function of an engine, the script file
\* being edited, removed or broken between the calls.
InitLoad ==
    /\ plan = <<>>
    /\ test_plan_name = DefaultPlanName
    /\ test_plan_files = <<>>
    /\ test_case_id = NoFilter
    /\ debug_level = 0
    /\ keyring = EmptyDict
    /\ pc = "loader"
    /\ FreshState

\* import_test_function(script_path, function_name), whatever is at script_path.
ImportTestFunction ==
    /\ pc = "loader"
    /\ Len(trace) < MaxCalls
    /\ \E script \in ScriptFiles :
       \E loaded \in { import_test_function(script, sys_modules) } :
         /\ sys_modules' = loaded.sys_modules
         /\ trace' = Append(trace, Event("import_test_function", 0, 0,
                        [script |-> script, raised |-> loaded.raised,
                         function |-> loaded.function, executed |-> loaded.executed]))
         /\ pc' = IF loaded.raised THEN "raised" ELSE pc
    /\ UNCHANGED <<web_vars, plan, test_plan_name, test_plan_files, test_case_id, debug_level, tmp_framework_path,
                   tmp_dir_exists, keyring, json_logger, log_files, plan_results,
                   test_cases_to_execute, case_index, step_index, case_results,
                   summary, results, returned, step_calls>>

NextLoad == ImportTestFunction

SpecLoad == InitLoad /\ [][NextLoad]_vars

\* ------------------------------------------------ run_all_test_plans
\* The content of each file run_all_test_plans finds: one case of one step.
\* What loading it meets is decided when it is loaded.
PlanFileContents ==
    { [name |-> name,
       test_cases |-> Named(<<TestCase(1, FALSE, <<Step(1, TmpParameters, NoAuth)>>)>>)] :
      name \in PlanNames }

\* The lists of files glob can hand to the loop of line 262.
RECURSIVE FileLists(_)
FileLists(n) ==
    IF n = 0 THEN {<<>>}
    ELSE {<<>>} \cup { <<f>> \o rest : f \in PlanFileContents, rest \in FileLists(n - 1) }

\* run_all_test_plans with at least one file, at its first execute_test_plan.
InitAll ==
    /\ \E files \in FileLists(MaxPlanFiles) \ {<<>>} :
         /\ plan = Head(files).test_cases
         /\ test_plan_name = Head(files).name
         /\ test_plan_files = Tail(files)
    /\ test_case_id = NoFilter
    /\ debug_level = 0
    /\ keyring = EmptyDict
    /\ FreshProcess

\* Lines 262-263: the loop goes to the next file once execute_test_plan is
\* back.  The locals of the call that ended are gone; self.results, the
\* temp-area manager, the keyring and the disk stay.
NextTestPlan ==
    /\ pc = "done"
    /\ test_plan_files # <<>>
    /\ plan' = Head(test_plan_files).test_cases
    /\ test_plan_name' = Head(test_plan_files).name
    /\ test_plan_files' = Tail(test_plan_files)
    /\ pc' = "load_test_plan"
    /\ returned' = ""
    /\ json_logger' = EmptyDict
    /\ plan_results' = EmptyDict
    /\ test_cases_to_execute' = <<>>
    /\ case_index' = 1
    /\ step_index' = 1
    /\ case_results' = <<>>
    /\ summary' = EmptyDict
    /\ UNCHANGED <<web_vars, sys_modules, test_case_id, debug_level, tmp_framework_path, tmp_dir_exists,
                   keyring, log_files, results, trace, step_calls>>

\* What generate_final_report meets when it writes the report file: written,
\* or open/json.dump raise (nothing catches it).
ReportOutcomes == {"written", "raised"}

\* Lines 265-276: after the last file, generate_final_report.
GenerateFinalReport ==
    /\ pc = "done"
    /\ test_plan_files = <<>>
    /\ \E outcome \in ReportOutcomes :
         /\ trace' = Append(trace, Event("generate_final_report", 0, 0,
                                         [outcome |-> outcome, plans |-> Len(results)]))
         /\ pc' = IF outcome = "written" THEN "reported" ELSE "raised"
    /\ UNCHANGED <<web_vars, sys_modules, plan, test_plan_name, test_plan_files, test_case_id, debug_level, tmp_framework_path,
                   tmp_dir_exists, keyring, json_logger, log_files, plan_results,
                   test_cases_to_execute, case_index, step_index, case_results,
                   summary, results, returned, step_calls>>

NextAll ==
    \/ Next
    \/ NextTestPlan
    \/ GenerateFinalReport

\* run_all_test_plans over up to MaxPlanFiles plan files.
SpecAll == InitAll /\ [][NextAll]_vars

\* ------------------------------------------- web relay: execute_test_plan
\* TestExecutionManager of web/backend/test_execution.py.  One call of the
\* coroutine execute_test_plan is followed from one await to the next; the two
\* reader tasks, the child, the client of the websocket and a caller of
\* stop_execution run between its steps.  Calls with other execution ids share
\* no entry of the two maps with this one.

\* execution_id = str(uuid.uuid4()) of the call that is followed.
ExecutionId == "e1"

\* The two pipes of the child, named as _stream_output names them.
Streams == {"STDOUT", "STDERR"}

\* The return code Popen reports for a child ended by terminate(): -SIGTERM.
Terminated == 0 - 15

\* Popen.terminate() as _cleanup_execution and stop_execution call it, guarded
\* by process.poll() is None: a running child ends, its pipes are closed.
terminate(p) == IF p.state = "running" THEN [p EXCEPT !.state = "terminated", !.returncode = Terminated] ELSE p

\* A message of websocket.send_json, with what the relay held while sending.
WebMessage(type, status) == [op |-> type, status |-> status, stream_tasks |-> stream_tasks, process_state |-> process.state]

\* await websocket.send_json(...): delivered on an open connection, raises on
\* a closed one.
Sent(type, status) == websocket = "open" /\ trace' = Append(trace, WebMessage(type, status))
SendRaises == websocket = "closed" /\ trace' = trace

\* What no step of the relay touches.
engine_vars == <<plan, test_plan_name, test_plan_files, test_case_id, debug_level, tmp_framework_path, tmp_dir_exists, keyring, sys_modules, json_logger, log_files, plan_results, test_cases_to_execute, case_index, step_index, case_results, summary, results, returned, step_calls>>

\* The relay at the first line of execute_test_plan, the client connected.
InitWeb ==
    /\ plan = <<>>
    /\ test_plan_name = DefaultPlanName
    /\ test_plan_files = <<>>
    /\ test_case_id = NoFilter
    /\ debug_level = 0
    /\ keyring = EmptyDict
    /\ pc = "web_entry"
    /\ FreshState

\* Lines 29-39 and 48 up to the first await: the websocket is registered and
\* the plan file is looked for.
WebRegister ==
    /\ pc = "web_entry"
    /\ websocket_connections' = websocket_connections \cup {ExecutionId}
    /\ \E exists \in BOOLEAN : pc' = IF exists THEN "web_send_starting" ELSE "web_send_not_found"
    /\ UNCHANGED <<engine_vars, active_executions, process, stream_tasks, websocket, trace>>

\* Lines 38-39: the error for a missing plan file, then return.
WebSendNotFound ==
    /\ pc = "web_send_not_found"
    /\ \/ Sent("ERROR", "not found") /\ pc' = "web_finally_return"
       \/ SendRaises /\ pc' = "web_except"
    /\ UNCHANGED <<engine_vars, web_vars>>

\* Line 48: the STARTING status.
WebSendStarting ==
    /\ pc = "web_send_starting"
    /\ \/ Sent("STATUS", "STARTING") /\ pc' = "web_popen"
       \/ SendRaises /\ pc' = "web_except"
    /\ UNCHANGED <<engine_vars, web_vars>>

\* Lines 51-61: subprocess.Popen starts the child, which is registered in the
\* same step, or raises and nothing is registered.
WebPopen ==
    /\ pc = "web_popen"
    /\ \/ /\ \E out \in 0..MaxLines, err \in 0..MaxLines : process' = [state |-> "running", returncode |-> 0, STDOUT |-> out, STDERR |-> err]
          /\ active_executions' = active_executions \cup {ExecutionId}
          /\ pc' = "web_send_running"
       \/ /\ UNCHANGED <<process, active_executions>>
          /\ pc' = "web_except"
    /\ UNCHANGED <<engine_vars, websocket_connections, stream_tasks, websocket, trace>>

\* Lines 63, 66 and 113-121: the RUNNING status, then _stream_output creates
\* the two reader tasks and awaits them.
WebSendRunning ==
    /\ pc = "web_send_running"
    /\ \/ /\ Sent("STATUS", "RUNNING")
          /\ stream_tasks' = [s \in Streams |-> "reading"]
          /\ pc' = "web_streaming"
       \/ /\ SendRaises
          /\ UNCHANGED stream_tasks
          /\ pc' = "web_except"
    /\ UNCHANGED <<engine_vars, active_executions, websocket_connections, process, websocket>>

\* Lines 127-142, one turn of the loop of _read_stream for one stream: a line
\* is read and sent; or readline returns '' at end-of-file, once the child has
\* ended and its lines are read; or readline or the send raises, which the
\* task's own handler prints, and the task ends.
WebReadStream ==
    /\ \E s \in Streams :
        /\ stream_tasks[s] = "reading"
        /\ \/ /\ process[s] > 0
              /\ Sent("OUTPUT", s)
              /\ process' = [process EXCEPT ![s] = @ - 1]
              /\ UNCHANGED stream_tasks
           \/ /\ process[s] > 0
              /\ SendRaises
              /\ process' = [process EXCEPT ![s] = @ - 1]
              /\ stream_tasks' = [stream_tasks EXCEPT ![s] = "failed"]
           \/ /\ process[s] > 0
              /\ stream_tasks' = [stream_tasks EXCEPT ![s] = "failed"]
              /\ UNCHANGED <<process, trace>>
           \/ /\ process[s] = 0
              /\ process.state # "running"
              /\ stream_tasks' = [stream_tasks EXCEPT ![s] = "eof"]
              /\ UNCHANGED <<process, trace>>
    /\ UNCHANGED <<engine_vars, active_executions, websocket_connections, websocket, pc>>

\* The child ends by itself, with the return code of main.py.
WebChildExits ==
    /\ process.state = "running"
    /\ \E code \in {0, 1} : process' = [process EXCEPT !.state = "exited", !.returncode = code]
    /\ UNCHANGED <<engine_vars, active_executions, websocket_connections, stream_tasks, websocket, trace, pc>>

\* Line 121: asyncio.gather returns when both reader tasks have ended.  The
\* tasks catch what they raise, so the handler of lines 123-124 never runs.
WebGather ==
    /\ pc = "web_streaming"
    /\ \A s \in Streams : stream_tasks[s] \in {"eof", "failed"}
    /\ pc' = "web_wait"
    /\ UNCHANGED <<engine_vars, web_vars, trace>>

\* Lines 69-73 and 144-162: process.wait() returns once the child has ended;
\* _generate_execution_log reads the plan file again, which can raise.
WebWait ==
    /\ pc = "web_wait"
    /\ process.state # "running"
    /\ \E readable \in BOOLEAN : pc' = IF readable THEN "web_send_final" ELSE "web_except"
    /\ UNCHANGED <<engine_vars, web_vars, trace>>

\* Lines 75-78 and 80-82: COMPLETED for return code 0 and FAILED for any other.
WebSendFinal ==
    /\ pc = "web_send_final"
    /\ \/ Sent("STATUS", IF process.returncode = 0 THEN "COMPLETED" ELSE "FAILED") /\ pc' = "web_send_log_link"
       \/ SendRaises /\ pc' = "web_except"
    /\ UNCHANGED <<engine_vars, web_vars>>

\* Lines 79 and 83: the link of the log, the last statement of the try block.
WebSendLogLink ==
    /\ pc = "web_send_log_link"
    /\ \/ Sent("LOG_LINK", "") /\ pc' = "web_finally_return"
       \/ SendRaises /\ pc' = "web_except"
    /\ UNCHANGED <<engine_vars, web_vars>>

\* Lines 85-86: the handler sends the error; a send that raises leaves the
\* call by the exception, through the finally clause.
WebExcept ==
    /\ pc = "web_except"
    /\ \/ Sent("ERROR", "execution error") /\ pc' = "web_finally_return"
       \/ SendRaises /\ pc' = "web_finally_raise"
    /\ UNCHANGED <<engine_vars, web_vars>>

\* Lines 87-89 and 199-208: _cleanup_execution in the finally clause, then the
\* call returns or raises.
WebCleanup ==
    /\ pc \in {"web_finally_return", "web_finally_raise"}
    /\ process' = IF ExecutionId \in active_executions THEN terminate(process) ELSE process
    /\ active_executions' = active_executions \ {ExecutionId}
    /\ websocket_connections' = websocket_connections \ {ExecutionId}
    /\ pc' = IF pc = "web_finally_return" THEN "web_returned" ELSE "web_raised"
    /\ UNCHANGED <<engine_vars, stream_tasks, websocket, trace>>

\* Lines 210-216: stop_execution(execution_id), called while the coroutine
\* waits.
WebStopExecution ==
    /\ pc \notin {"web_entry", "web_returned", "web_raised"}
    /\ ExecutionId \in active_executions
    /\ process' = terminate(process)
    /\ active_executions' = active_executions \ {ExecutionId}
    /\ websocket_connections' = websocket_connections \ {ExecutionId}
    /\ UNCHANGED <<engine_vars, stream_tasks, websocket, trace, pc>>

\* The client of the websocket disconnects while the call runs.
WebClientCloses ==
    /\ pc \notin {"web_returned", "web_raised"}
    /\ websocket = "open"
    /\ websocket' = "closed"
    /\ UNCHANGED <<engine_vars, active_executions, websocket_connections, process, stream_tasks, trace, pc>>

NextWeb ==
    \/ WebRegister
    \/ WebSendNotFound
    \/ WebSendStarting
    \/ WebPopen
    \/ WebSendRunning
    \/ WebReadStream
    \/ WebChildExits
    \/ WebGather
    \/ WebWait
    \/ WebSendFinal
    \/ WebSendLogLink
    \/ WebExcept
    \/ WebCleanup
    \/ WebStopExecution
    \/ WebClientCloses

SpecWeb == InitWeb /\ [][NextWeb]_vars

\* ================================================================ claims
\* The execute_test_step calls made so far, in order.
StepEvents == step_calls

\* The <<case, step>> places execute_test_step was called for, in order.
Executed == [k \in 1..Len(StepEvents) |-> <<StepEvents[k].case, StepEvents[k].step>>]

\* The Execution Records built so far: those of the finished cases, then
\* those of the case under way.
Records ==
    IF plan_results = EmptyDict THEN case_results
    ELSE plan_results.test_cases \o case_results

\* Whether the filter lets case c of the plan through.
Selected(c) == test_case_id = NoFilter \/ plan[c].id = test_case_id

\* The <<case, step>> places of the selected cases from case c on, in plan order.
RECURSIVE ExpectedFrom(_)
ExpectedFrom(c) ==
    IF c > Len(plan) THEN <<>>
    ELSE (IF Selected(c) THEN [k \in 1..Len(plan[c].steps) |-> <<c, k>>] ELSE <<>>)
         \o ExpectedFrom(c + 1)

Expected == ExpectedFrom(1)

IsPrefix(a, b) == Len(a) <= Len(b) /\ SubSeq(b, 1, Len(a)) = a

\* execute_test_plan returned its summary.
ReturnedSummary == pc = "done" /\ returned = "plan_results"

\* The loop over the cases is over and no exception left it.
PastAllSteps == pc \in {"finish_execution", "cleanup_tmp_area"} \/ ReturnedSummary

\* The places of the trace holding a call of op.
Calls(op) == { i \in 1..Len(trace) : trace[i].op = op }

\* The records whose recorded returncode is 0.
PassedRecords(records) ==
    { k \in 1..Len(records) :
        "returncode" \in DOMAIN records[k].result /\ records[k].result.returncode = 0 }

\* C1: a plan run without a filter that returns its summary has, in the
\* engine's summary and in the JSON log alike, total_steps equal to the number
\* of steps of the plan, passed_steps + failed_steps equal to it, and
\* passed_steps equal to the number of records whose returncode is 0.
C1_TotalsMatchPlan ==
    (ReturnedSummary /\ test_case_id = NoFilter) =>
        LET n == TotalSteps(plan)
            passed == Cardinality(PassedRecords(plan_results.test_cases))
        IN /\ Len(plan_results.test_cases) = n
           /\ summary.total_steps = n
           /\ summary.passed_steps + summary.failed_steps = n
           /\ summary.passed_steps = passed
           /\ json_logger.results.total_steps = n
           /\ json_logger.results.passed_steps + json_logger.results.failed_steps = n
           /\ json_logger.results.passed_steps = passed
           /\ \A f \in 1..Len(log_files) :
                /\ log_files[f].data.results.total_steps = n
                /\ log_files[f].data.results.passed_steps + log_files[f].data.results.failed_steps = n
                /\ log_files[f].data.results.passed_steps = passed

\* A two-case plan run without a filter: one step passed, one answered
\* without a returncode, and the log was written.
C1_Witness ==
    /\ ReturnedSummary /\ test_case_id = NoFilter
    /\ Len(plan) = 2 /\ TotalSteps(plan) = 2
    /\ summary.passed_steps = 1
    /\ Len(log_files) = 1
    /\ \E k \in 1..2 : "returncode" \notin DOMAIN plan_results.test_cases[k].result

\* C2: the steps are executed in plan order, cases in list order and steps in
\* list order inside a case, none twice and, once the loop is over, each
\* selected step once; the records of the summary and the detailed_results of
\* the JSON log follow the same order.
C2_PlanOrder ==
    LET executed == Executed
        expected == Expected
        records == Records
    IN /\ IsPrefix(executed, expected)
       /\ PastAllSteps => executed = expected
       /\ Len(records) <= Len(executed)
       /\ \A k \in 1..Len(records) :
            /\ records[k].test_case = plan[executed[k][1]].name
            /\ records[k].step_number = plan[executed[k][1]].steps[executed[k][2]].step_number
       /\ json_logger # EmptyDict /\ plan_results # EmptyDict =>
            /\ Len(json_logger.detailed_results) = Len(plan_results.test_cases)
            /\ \A k \in 1..Len(plan_results.test_cases) :
                 /\ json_logger.detailed_results[k].test_case = plan_results.test_cases[k].test_case
                 /\ json_logger.detailed_results[k].step_number = plan_results.test_cases[k].step_number
       /\ PastAllSteps => Len(plan_results.test_cases) = Len(expected)

\* A run over two steps of one case whose log was written with both.
C2_Witness ==
    /\ ReturnedSummary
    /\ Executed = <<(<<1, 1>>), (<<1, 2>>)>>
    /\ Len(log_files) = 1
    /\ Len(log_files[1].data.detailed_results) = 2

\* A step that failed: the loader gave no function, the function raised, or it
\* answered with a returncode other than 0.
FailingStep(e) ==
    \/ e.loader # "found"
    \/ e.fn.kind = "raises"
    \/ e.fn.kind = "returns_map" /\ e.fn.returncode # 0

\* C3: a failing step is recorded once, is never executed again, and the
\* steps and cases after it are still executed.
C3_FailureRecordedRunGoesOn ==
    LET events == StepEvents
        expected == Expected
        records == Records
    IN /\ \A k \in 1..Len(events) :
            FailingStep(events[k]) =>
               /\ ~events[k].raised
               /\ \A j \in 1..Len(events) :
                    (events[j].case = events[k].case /\ events[j].step = events[k].step) => j = k
               /\ k <= Len(records) /\ records[k].result = events[k].result
               /\ k = Len(events) /\ k < Len(expected) =>
                    /\ pc \in {"step", "case_end", "case_start"}
                    /\ expected[k + 1][1] = expected[k][1] => pc = "step"
       /\ PastAllSteps => Len(events) = Len(expected)

\* The function of the first step raised and the step of the next case was
\* then called.
C3_Witness ==
    /\ Len(StepEvents) = 2
    /\ StepEvents[1].fn.kind = "raises"
    /\ StepEvents[2].case = 2 /\ StepEvents[2].invoked

\* C4: when the function answers with returncode r, the record of a negative
\* test has original_returncode r and returncode 0 if r is not 0, else 1; the
\* record of any other case has returncode r and no original_returncode.
C4_NegativeInversion ==
    LET events == StepEvents
        records == Records
    IN \A k \in 1..Len(records) :
        events[k].fn.kind = "returns_map" =>
            LET r == events[k].fn.returncode
                result == records[k].result
            IN IF records[k].is_negative_test
               THEN /\ "original_returncode" \in DOMAIN result
                    /\ result.original_returncode = r
                    /\ result.returncode = IF r # 0 THEN 0 ELSE 1
               ELSE /\ result.returncode = r
                    /\ "original_returncode" \notin DOMAIN result

\* A negative test whose function answered 5 beside a normal one that answered 5.
C4_Witness ==
    /\ Len(Records) = 2
    /\ Records[1].is_negative_test /\ StepEvents[1].fn = [kind |-> "returns_map", returncode |-> 5]
    /\ Records[1].result.returncode = 0 /\ Records[1].result.original_returncode = 5
    /\ ~Records[2].is_negative_test /\ StepEvents[2].fn = [kind |-> "returns_map", returncode |-> 5]

\* C5: every record of a step of a negative-test case carries
\* original_returncode, and its returncode is that code inverted once.
C5_EveryNegativeRecordInverted ==
    \A k \in 1..Len(Records) :
        Records[k].is_negative_test =>
            /\ "original_returncode" \in DOMAIN Records[k].result
            /\ Records[k].result.returncode =
                 IF Records[k].result.original_returncode # 0 THEN 0 ELSE 1

\* C6: create_tmp_area is called before any step function is invoked; when
\* execute_test_plan is left after the plan loaded, by a return or by an
\* exception, cleanup_tmp_area was called after the last step; no step is
\* executed after the cleanup.
C6_CleanupOnEveryPath ==
    /\ \A i \in Calls("execute_test_step") : \E j \in Calls("create_tmp_area") : j < i
    /\ (pc \in {"done", "raised"} /\ Calls("start_execution") # {}) =>
          \E j \in Calls("cleanup_tmp_area") : \A i \in Calls("execute_test_step") : i < j
    /\ \A j \in Calls("cleanup_tmp_area") : \A i \in Calls("execute_test_step") : i < j

\* C7: with a filter, only steps of cases whose id equals it are executed, in
\* plan order, and all of them once the loop is over; when no case matches no
\* step is executed, create_tmp_area and then cleanup_tmp_area are called, and
\* a summary without records is returned.
C7_FilterSelects ==
    test_case_id # NoFilter =>
        LET events == StepEvents IN
        /\ \A k \in 1..Len(events) : plan[events[k].case].id = test_case_id
        /\ \A j, k \in 1..Len(events) :
             j < k => \/ events[j].case < events[k].case
                      \/ events[j].case = events[k].case /\ events[j].step < events[k].step
        /\ PastAllSteps =>
             \A c \in 1..Len(plan) : plan[c].id = test_case_id =>
                 \A n \in 1..Len(plan[c].steps) :
                     \E k \in 1..Len(events) : events[k].case = c /\ events[k].step = n
        /\ (pc \notin {"load_test_plan", "start_execution", "create_tmp_area", "filter"}
            /\ Calls("start_execution") # {}
            /\ \A c \in 1..Len(plan) : plan[c].id # test_case_id) =>
                /\ events = <<>>
                /\ pc = "done" /\ returned = "plan_results"
                /\ plan_results.test_cases = <<>>
                /\ \E i \in Calls("create_tmp_area") : \E j \in Calls("cleanup_tmp_area") : i < j

\* Two cases with a step each, neither with the id of the filter: the call
\* returned.
C7_Witness ==
    /\ test_case_id # NoFilter
    /\ Len(plan) = 2 /\ TotalSteps(plan) = 2
    /\ \A c \in 1..Len(plan) : plan[c].id # test_case_id
    /\ pc = "done" /\ returned = "plan_results"
    /\ tmp_framework_path # "" /\ ~tmp_dir_exists

\* C8: when execute_test_plan returns after start_execution, finish_execution
\* was called, and the log file is there unless the write failed.
C8_LoggerFinished ==
    (pc = "done" /\ json_logger # EmptyDict) =>
        \E i \in Calls("finish_execution") :
            trace[i].info.outcome = "saved" => Len(log_files) = 1

\* C9: no exception leaves execute_test_step: each call returns a record.
C9_StepNeverRaises ==
    \A k \in 1..Len(StepEvents) : ~StepEvents[k].raised

\* C10: for a step whose loader failed the result is the canned one
\* (returncode 3, exception "Function import failed"), the record returned
\* carries it, and neither the function nor process_parameters nor the
\* keyring nor the prompt was called.
C10_ImportFailureCanned ==
    LET events == StepEvents
        records == Records
    IN \A k \in 1..Len(events) :
        events[k].loader # "found" =>
            /\ events[k].result.returncode = 3
            /\ events[k].result.exception = "Function import failed"
            /\ ~events[k].raised => k <= Len(records) /\ records[k].result = events[k].result
            /\ ~events[k].invoked
            /\ ~events[k].process_parameters_called
            /\ ~events[k].looked_up
            /\ ~events[k].prompted

\* The loader failed for a step with <tmp> in its parameters and a basic
\* authentication whose credentials are not stored; the record is there.
C10_Witness ==
    /\ Len(StepEvents) = 1 /\ Len(Records) = 1
    /\ StepEvents[1].loader = "missing"
    /\ plan[1].steps[1].parameters = TmpParameters
    /\ plan[1].steps[1].authentication = BasicAuth
    /\ keyring = EmptyDict
    /\ Records[1].result.returncode = 3

\* C11: when the invoked step function raises, the result built for the step
\* has returncode 4 and the exception's text in its exception field and the
\* function's exception does not leave execute_test_step: the call returns the
\* record with that result (the one exception that can still leave it is the
\* KeyError of line 150 for a step that has no step_number).
C11_FunctionExceptionRecorded ==
    LET events == StepEvents
        records == Records
    IN \A k \in 1..Len(events) :
        (events[k].invoked /\ events[k].fn.kind = "raises") =>
            /\ events[k].result.returncode = 4
            /\ events[k].result.exception = FunctionError
            /\ events[k].raised =>
                 /\ events[k].left = "KeyError"
                 /\ "step_number" \notin DOMAIN plan[events[k].case].steps[events[k].step]
            /\ ~events[k].raised =>
                 /\ k <= Len(records) /\ records[k].result = events[k].result

\* The function of a negative test's step raised: the record holds returncode
\* 4, not inverted.
C11_Witness ==
    /\ Len(StepEvents) = 1 /\ Len(Records) = 1
    /\ StepEvents[1].invoked /\ StepEvents[1].fn.kind = "raises"
    /\ Records[1].is_negative_test
    /\ Records[1].result.returncode = 4
    /\ Records[1].result.exception = FunctionError

\* The plan file leaves out a required field of a case or of a step.
PlanLacksField ==
    \E c \in 1..Len(plan) :
        \/ CaseRequired \ DOMAIN plan[c] # {}
        \/ \E n \in 1..Len(Get(plan[c], "steps", <<>>)) :
              StepRequired \ DOMAIN plan[c].steps[n] # {}

\* C12: a plan that lacks a required field, of the plan, of a case or of a
\* step, fails when it is loaded: execute_test_plan returns None at once, no
\* step of it is executed and no exception leaves the engine.
C12_MissingFieldFailsLoad ==
    LET rejected == /\ pc \in {"load_test_plan", "done"}
                    /\ pc = "done" => returned = "None"
                    /\ step_calls = <<>>
    IN /\ PlanLacksField => rejected
       /\ \A i \in Calls("load_test_plan") :
            trace[i].info.outcome \in {"missing_name", "missing_test_cases"} => rejected

\* execute_test_plan is back from a load_test_plan that failed.
LoadFailed ==
    /\ pc = "done" /\ returned = "None"
    /\ trace[Len(trace)].op = "load_test_plan"
    /\ ~trace[Len(trace)].info.loads

\* C13: when loading a plan fails (unreadable file, malformed JSON, no name,
\* no test_cases), execute_test_plan returns None having invoked no step
\* function, created no temp area, started no JSON log and left self.results
\* as it was; run_all_test_plans then goes on with the next file of its loop.
C13_LoadFailureSkipsPlan ==
    /\ [][ (pc = "load_test_plan" /\ Len(trace') > Len(trace)
            /\ trace'[Len(trace')].info.outcome # "loaded") =>
              /\ pc' = "done" /\ returned' = "None"
              /\ UNCHANGED <<results, step_calls, tmp_framework_path, tmp_dir_exists,
                             json_logger, log_files, keyring, test_plan_files>> ]_vars
    /\ []((LoadFailed /\ test_plan_files # <<>>) => ENABLED NextTestPlan)
    /\ [][ (LoadFailed /\ test_plan_files # <<>>) =>
              (pc' = "load_test_plan" /\ plan' = Head(test_plan_files).test_cases
               /\ test_plan_files' = Tail(test_plan_files)) ]_vars

\* The first of two files did not load; the step of the second was executed
\* and its summary is the one entry of self.results.
C13_Witness ==
    /\ Cardinality(Calls("load_test_plan")) = 2
    /\ \E i \in Calls("load_test_plan") : trace[i].info.outcome = "malformed_json"
    /\ pc = "reported"
    /\ Len(results) = 1 /\ Len(step_calls) = 1 /\ step_calls[1].invoked

\* Whether a string leaf of the tree holds the <tmp> tag.
RECURSIVE HasTmp(_)
HasTmp(value) ==
    CASE value.t = "str" -> \E i \in 1..Len(value.v) : value.v[i] = "<tmp>"
      [] value.t = "dict" -> \E k \in DOMAIN value.v : HasTmp(value.v[k])
      [] value.t = "list" -> \E i \in 1..Len(value.v) : HasTmp(value.v[i])
      [] OTHER -> FALSE

\* Whether the tree after has the shape of the tree before, with every number
\* and every string without the tag as it was.
RECURSIVE LeavesKept(_, _)
LeavesKept(before, after) ==
    /\ after.t = before.t
    /\ CASE before.t = "str" -> HasTmp(before) \/ after = before
         [] before.t = "dict" ->
                /\ DOMAIN after.v = DOMAIN before.v
                /\ \A k \in DOMAIN before.v : LeavesKept(before.v[k], after.v[k])
         [] before.t = "list" ->
                /\ Len(after.v) = Len(before.v)
                /\ \A i \in 1..Len(before.v) : LeavesKept(before.v[i], after.v[i])
         [] OTHER -> after = before

\* C14: after process_parameters on a manager whose area was created, no
\* string leaf of the tree returned holds the <tmp> tag, at any depth and in
\* a list inside a list too, and every number and every string without the
\* tag is as it was.
C14_NoTmpLeftAtAnyDepth ==
    \A i \in Calls("process_parameters") :
        (tmp_framework_path # "" /\ trace[i].info.output.t # "raised") =>
            /\ ~HasTmp(trace[i].info.output)
            /\ LeavesKept(trace[i].info.input, trace[i].info.output)

\* C15: on a manager on which create_tmp_area was never called,
\* resolve_tmp_path raises the "Temporary area not created" error for every
\* value, with the tag or without, and so does process_parameters on a tree
\* with a string to resolve; a step executed by the engine on such a manager
\* is recorded with returncode 4 and that error, its function is not invoked,
\* and the error does not leave execute_test_step (the one exception that can
\* still leave it is the KeyError of line 150 for a step without step_number).
C15_ResolveBeforeCreateFails ==
    Calls("create_tmp_area") = {} =>
        /\ \A i \in Calls("resolve_tmp_path") :
              trace[i].info.output = Raised(TmpNotCreatedError)
        /\ \A i \in Calls("process_parameters") :
              CallsResolve(trace[i].info.input) =>
                  trace[i].info.output = Raised(TmpNotCreatedError)
        /\ \A i \in Calls("execute_test_step") :
              LET step == trace[i].info.step
                  call == step_calls[1]
              IN (call.process_parameters_called /\ CallsResolve(step.parameters)) =>
                    /\ call.result.returncode = 4
                    /\ call.result.exception = TmpNotCreatedError
                    /\ ~call.invoked
                    /\ call.raised => call.left = "KeyError" /\ "step_number" \notin DOMAIN step
                    /\ ~call.raised => pc = "done"

\* resolve_tmp_path of a string without the tag raised on a manager that was
\* only ever cleaned up.
C15_Witness ==
    /\ Calls("create_tmp_area") = {}
    /\ Calls("cleanup_tmp_area") # {}
    /\ \E i \in Calls("resolve_tmp_path") :
          /\ trace[i].info.input = StrVal(<<"plain">>)
          /\ trace[i].info.output = Raised(TmpNotCreatedError)

\* The cleanup_tmp_area call at place i of the trace came right after another.
SecondInARow(i) == i > 1 /\ trace[i - 1].op = "cleanup_tmp_area"

\* The directory is there once the cleanup_tmp_area call at place i is over.
ExistsAfter(i) == trace[i].info.existed /\ ~trace[i].info.removed

\* C16 as stated: cleanup_tmp_area called before any create_tmp_area returns
\* returncode 0 and changes nothing; called twice in a row after a
\* create_tmp_area, both calls return returncode 0 and the directory does not
\* exist afterwards.
C16_CleanupTwiceBothSucceed ==
    \A i \in Calls("cleanup_tmp_area") :
        /\ (\A j \in Calls("create_tmp_area") : j > i) =>
              trace[i].info.returncode = 0 /\ ~trace[i].info.removed
        /\ (SecondInARow(i) /\ \E j \in Calls("create_tmp_area") : j < i) =>
              /\ trace[i - 1].info.returncode = 0
              /\ trace[i].info.returncode = 0
              /\ ~ExistsAfter(i)

\* C16 amended: cleanup_tmp_area returns returncode 0 or 2 and never raises;
\* before any create_tmp_area it returns 0 and changes nothing; it returns 2
\* exactly when removing a directory that is there fails, and the directory
\* then stays; when it returns 0 the directory does not exist afterwards, and
\* a second call right after a call that returned 0 returns 0 too and removes
\* nothing.
C16_CleanupIdempotentOnceRemoved ==
    \A i \in Calls("cleanup_tmp_area") :
        /\ trace[i].info.returncode \in {0, 2}
        /\ (\A j \in Calls("create_tmp_area") : j > i) =>
              trace[i].info.returncode = 0 /\ ~trace[i].info.removed
        /\ trace[i].info.returncode = 2 <=> ExistsAfter(i)
        /\ trace[i].info.returncode = 0 => ~ExistsAfter(i)
        /\ (SecondInARow(i) /\ trace[i - 1].info.returncode = 0) =>
              /\ trace[i].info.returncode = 0
              /\ ~trace[i].info.removed
              /\ ~ExistsAfter(i)

\* The area was created, the first cleanup removed it, the second found
\* nothing and returned 0.
C16_Witness ==
    /\ Len(trace) = 3
    /\ trace[1].op = "create_tmp_area" /\ trace[1].info.returncode = 0
    /\ trace[2].op = "cleanup_tmp_area" /\ trace[2].info.removed
    /\ trace[3].op = "cleanup_tmp_area" /\ trace[3].info.returncode = 0
    /\ ~tmp_dir_exists

\* Some infrastructure call of the run failed: create_tmp_area or
\* cleanup_tmp_area returned returncode 2, or finish_execution could not save
\* the log.
InfrastructureFailed ==
    \E i \in 1..Len(trace) :
        \/ trace[i].op \in {"create_tmp_area", "cleanup_tmp_area"} /\ trace[i].info.returncode = 2
        \/ trace[i].op = "finish_execution" /\ trace[i].info.outcome # "saved"

\* C17: create_tmp_area returns returncode 0 or 2 and never raises; a run in
\* which create_tmp_area or cleanup_tmp_area returned 2 or the log could not
\* be saved is not aborted: no exception leaves execute_test_plan, every
\* selected step is executed, the plan summary is returned and, when a case
\* was selected, appended to self.results.
C17_InfrastructureFailuresDoNotAbort ==
    /\ \A i \in Calls("create_tmp_area") : trace[i].info.returncode \in {0, 2}
    /\ InfrastructureFailed =>
          /\ pc # "raised"
          /\ pc = "done" =>
                /\ returned = "plan_results"
                /\ Executed = Expected
                /\ (test_case_id = NoFilter \/ test_cases_to_execute # <<>>) =>
                      results = <<plan_results>>


\* The calls of resolve_authentication a client of the credential library made.
Resolves == { i \in 1..Len(trace) : trace[i].op = "resolve_authentication" }

\* The entry a call is about: its (authentication_name, authentication_type).
EntryOf(i) == <<Get(trace[i].info.auth_config, "authentication_name", ""),
                Get(trace[i].info.auth_config, "authentication_type", "")>>

\* The call is about a complete entry and no credentials are stored for it.
NothingStored(i) ==
    /\ EntryOf(i)[1] # "" /\ EntryOf(i)[2] # ""
    /\ get_credentials(trace[i].info.keyring_before, EntryOf(i)[2], "ok") = EmptyDict

\* The map of the fields typed at the prompt, with the type.
EnteredMap(i) ==
    LET typed == IF trace[i].info.prompt = "entered" THEN Typed ELSE "" IN
    IF EntryOf(i)[2] = "basic"
    THEN [auth_username |-> typed, auth_password |-> typed, auth_type |-> "basic"]
    ELSE [auth_token |-> typed, auth_type |-> "token"]

\* The call persisted what was entered and returned exactly that.
PersistedAndReturned(i) ==
    /\ trace[i].info.credentials = EnteredMap(i)
    /\ get_credentials(trace[i].info.keyring_after, EntryOf(i)[2], "ok") = EnteredMap(i)

\* C18 as stated: when nothing is stored for the entry and the user completes
\* the prompt, the call persists the entered fields and returns exactly them,
\* and every later call for the same entry returns the same map unprompted.
C18_PromptedCredentialsPersistAndReturn ==
    \A i \in Resolves :
        (NothingStored(i) /\ trace[i].info.prompt \in {"entered", "entered_empty"}) =>
            /\ PersistedAndReturned(i)
            /\ \A j \in Resolves :
                  (j > i /\ EntryOf(j) = EntryOf(i)) =>
                      /\ trace[j].info.credentials = trace[i].info.credentials
                      /\ ~trace[j].info.prompted

\* From the i-th call to the j-th the keyring works in every call and no
\* call deletes credentials.
KeyringWorks(i, j) ==
    \A k \in i..j : trace[k].info.keyring_state = "ok" /\ trace[k].op # "delete_credentials"

\* C18: when nothing is stored for the entry, the user enters non-empty values
\* and the keyring works, the call persists the entered fields and returns
\* exactly them, and as long as the keyring works and the entry is not
\* deleted every later call for the same entry returns the same map without
\* prompting.
C18_EnteredCredentialsPersistWhileKeyringWorks ==
    \A i \in Resolves :
        (NothingStored(i) /\ trace[i].info.prompt = "entered"
                          /\ trace[i].info.keyring_state = "ok") =>
            /\ PersistedAndReturned(i)
            /\ \A j \in Resolves :
                  (j > i /\ EntryOf(j) = EntryOf(i) /\ KeyringWorks(i, j)) =>
                      /\ trace[j].info.credentials = trace[i].info.credentials
                      /\ ~trace[j].info.prompted

\* Values were entered for an empty entry, and the entry was resolved again.
C18_Witness ==
    \E i, j \in Resolves :
        /\ j > i /\ EntryOf(j) = EntryOf(i) /\ KeyringWorks(i, j)
        /\ NothingStored(i) /\ trace[i].info.prompt = "entered"
        /\ trace[i].info.prompted
        /\ trace[j].info.credentials = EnteredMap(i)
        /\ trace[j].info.looked_up

\* C19: resolve_authentication never raises.  A keyring that raises on the
\* lookup is read as nothing found, so the user is prompted; a keyring that
\* raises on storing makes the call return an empty map; a cancelled or
\* failing prompt yields an empty map and stores nothing; an empty or
\* incomplete auth_config yields an empty map with no lookup and no prompt.
C19_ResolveAuthenticationNeverRaises ==
    /\ pc = "credential_manager" => \A i \in Resolves :
        LET call == trace[i].info
            complete == EntryOf(i)[1] # "" /\ EntryOf(i)[2] # ""
        IN /\ ~call.raised
           /\ (complete /\ ~GetWorks(call.keyring_state)) =>
                 call.looked_up /\ call.prompted
           /\ (call.prompted /\ ~SetWorks(call.keyring_state)) =>
                 call.credentials = EmptyDict
           /\ (call.prompted /\ call.prompt \in {"cancelled", "eof"}) =>
                 call.credentials = EmptyDict /\ call.keyring_after = call.keyring_before
           /\ ~complete =>
                 /\ call.credentials = EmptyDict
                 /\ ~call.looked_up /\ ~call.prompted
                 /\ call.keyring_after = call.keyring_before
    /\ trace # <<>> /\ trace[1].op = "resolve_authentication" => pc = "credential_manager"

\* The keyring raised on the lookup of a stored entry, the user was prompted
\* and cancelled, and the next call was made.
C19_Witness ==
    \E i, j \in Resolves :
        /\ j > i
        /\ ~GetWorks(trace[i].info.keyring_state)
        /\ get_credentials(trace[i].info.keyring_before, EntryOf(i)[2], "ok") # EmptyDict
        /\ trace[i].info.prompted /\ trace[i].info.prompt = "cancelled"
        /\ trace[i].info.credentials = EmptyDict

\* The calls of import_test_function a client of the loader made.
Imports == { i \in 1..Len(trace) : trace[i].op = "import_test_function" }

\* C20: import_test_function never raises.  It returns the sentinel when the
\* file is missing, does not load or lacks the function, and otherwise the
\* function the file defines at the time of the call; every call executes the
\* file that is there, whatever earlier calls loaded, and registers no module.
C20_ImportNeverRaisesAndLoadsAfresh ==
    /\ \A i \in Imports :
        LET call == trace[i].info IN
        /\ ~call.raised
        /\ call.script.kind \in {"missing", "unloadable", "no_attribute"} =>
              call.function = Sentinel
        /\ call.script.kind = "found" => call.function = call.script.version
        /\ call.executed <=> call.script.kind # "missing"
    /\ Imports # {} => pc = "loader" /\ sys_modules = EmptyDict

\* One version of the file was loaded, then the edited file, then the file was gone.
C20_Witness ==
    /\ Imports = 1..3
    /\ trace[1].info.script = ScriptFile("found", 1) /\ trace[1].info.function = 1
    /\ trace[2].info.script = ScriptFile("found", 2) /\ trace[2].info.function = 2
    /\ trace[3].info.script.kind = "missing" /\ trace[3].info.function = Sentinel

\* C21: finish_execution never raises: when the log directory cannot be made
\* or the file cannot be written the call returns without a file, and
\* execute_test_plan goes on to cleanup_tmp_area.
C21_FinishNeverRaises ==
    \A i \in Calls("finish_execution") :
        /\ ~(pc = "raised" /\ i = Len(trace))
        /\ trace[i].info.outcome # "saved" => log_files = <<>>
        /\ pc = "done" => \E j \in Calls("cleanup_tmp_area") : j > i

\* C22: the result of every Execution Record the engine built holds an
\* integer returncode, also when the map the step function returned has none.
C22_EveryRecordHasReturncode ==
    \A k \in 1..Len(Records) :
        /\ "returncode" \in DOMAIN Records[k].result
        /\ Records[k].result.returncode \in Int

\* A temp area is active at the i-th call: an earlier create_tmp_area returned
\* returncode 0, and since then no cleanup_tmp_area removed the directory and
\* no create_tmp_area returned returncode 2.
AreaActive(i) ==
    \E j \in Calls("create_tmp_area") :
        /\ j < i /\ trace[j].info.returncode = 0
        /\ \A k \in (j + 1)..(i - 1) :
             /\ ~(trace[k].op = "cleanup_tmp_area" /\ trace[k].info.removed)
             /\ ~(trace[k].op = "create_tmp_area" /\ trace[k].info.returncode = 2)

\* C23: get_tmp_path and resolve_tmp_path return only while a temp area is
\* active, and raise after a cleanup or after a create that returned 2.
C23_PathOnlyWhileAreaActive ==
    \A i \in Calls("get_tmp_path") \cup Calls("resolve_tmp_path") :
        trace[i].info.output.t # "raised" => AreaActive(i)

\* C24: the keyword arguments of an invoked step function are the resolved
\* parameters overlaid with the credential map: every key of the credential
\* map carries the credential, also when the parameters name it too, and
\* every other key the resolved parameter.
C24_KwargsAreParametersOverlaidWithCredentials ==
    \A k \in 1..Len(StepEvents) :
        LET call == StepEvents[k]
            resolved == process_parameters(call.loaded_parameters, call.path)
        IN call.invoked =>
            /\ DOMAIN call.kwargs = (DOMAIN resolved.v) \cup (DOMAIN call.credentials)
            /\ \A key \in DOMAIN call.credentials :
                  call.kwargs[key] = StrVal(<<call.credentials[key]>>)
            /\ \A key \in (DOMAIN resolved.v) \ (DOMAIN call.credentials) :
                  call.kwargs[key] = resolved.v[key]

\* A function was invoked for a step whose parameters name auth_username and
\* whose basic credentials were found in the keyring.
C24_Witness ==
    \E k \in 1..Len(StepEvents) :
        /\ StepEvents[k].invoked
        /\ StepEvents[k].loaded_parameters = CollidingParameters
        /\ StepEvents[k].credentials # EmptyDict
        /\ StepEvents[k].kwargs["auth_username"] = StrVal(<<"alice">>)
        /\ StepEvents[k].kwargs["file_path"] # CollidingParameters.v["file_path"]

\* C25: process_parameters and the merge of the credentials leave the
\* caller's structure alone: after each step its parameters in the loaded plan
\* are what was loaded, and the record's parameters field holds them,
\* unresolved and without the keys of the credentials.
C25_CallerParametersUnchanged ==
    \A k \in 1..Len(StepEvents) :
        LET call == StepEvents[k] IN
        /\ call.step_parameters = call.loaded_parameters
        /\ call.case # 0 =>
              Get(plan[call.case].steps[call.step], "parameters", DictVal(EmptyDict))
                  = call.loaded_parameters
        /\ (call.case # 0 /\ ~call.raised) =>
              /\ k <= Len(Records)
              /\ Records[k].parameters = call.loaded_parameters

\* The plan was run to its end for a step with <tmp> in its parameters whose
\* function received the resolved parameters and the credentials.
C25_Witness ==
    /\ pc = "done" /\ Len(StepEvents) = 1 /\ Len(Records) = 1
    /\ StepEvents[1].invoked
    /\ StepEvents[1].loaded_parameters = TmpParameters
    /\ StepEvents[1].credentials # EmptyDict
    /\ StepEvents[1].kwargs # TmpParameters.v
    /\ DOMAIN StepEvents[1].credentials \subseteq DOMAIN StepEvents[1].kwargs
    /\ Records[1].parameters = TmpParameters

\* C26: the console shows one status line for every step that
\* execute_test_step returned a record for; the detail follows it for no step
\* at debug level 0, for every step at level 2, and at level 1 exactly for the
\* steps whose status line reads FAILED, negative test or not.
C26_DetailByDebugLevel ==
    \A k \in 1..Len(StepEvents) :
        LET console == StepEvents[k].console IN
        ~StepEvents[k].raised =>
        /\ Len(console) = 1
        /\ console[1].detail <=>
              \/ debug_level = 2
              \/ debug_level = 1 /\ console[1].status = "FAILED"

\* PASSED exactly when the returncode the record carries is 0.
RecordedStatus(record) ==
    IF Get(record.result, "returncode", 1) = 0 THEN "PASSED" ELSE "FAILED"

\* C27: for every step, negative test or not, the status printed on the
\* console is the status the JSON log gives it, PASSED exactly when the
\* recorded returncode is 0.
C27_ConsoleAgreesWithLog ==
    \A k \in 1..Len(Records) :
        /\ Len(StepEvents[k].console) = 1
        /\ StepEvents[k].console[1].status = RecordedStatus(Records[k])
        /\ (json_logger # EmptyDict /\ k <= Len(json_logger.detailed_results)) =>
              json_logger.detailed_results[k].status = RecordedStatus(Records[k])

\* The calls of delete_credentials a client of the credential library made.
Deletes == { i \in 1..Len(trace) : trace[i].op = "delete_credentials" }

\* C28: after a delete_credentials that returned True nothing is left of the
\* entry: credential_exists is False for basic and for token, whichever of
\* the fields were stored before.
C28_NothingLeftAfterDelete ==
    \A i \in Deletes :
        trace[i].info.returned =>
            /\ ~credential_exists(trace[i].info.keyring_after, "basic", "ok")
            /\ ~credential_exists(trace[i].info.keyring_after, "token", "ok")

\* The calls of finish_execution that saved a log file.
SavedLogs == { i \in Calls("finish_execution") : trace[i].info.outcome = "saved" }

\* C29: every execution that finished and saved its log has a file of its
\* own: no two of them wrote the same file, so each log is still there.
C29_EachExecutionKeepsItsLog ==
    /\ \A i, j \in SavedLogs : i # j => trace[i].info.file # trace[j].info.file
    /\ Len(log_files) = Cardinality(SavedLogs)

\* C30: whatever path the web relay's execute_test_plan takes, when it returns
\* (or raises) its execution id is in neither active_executions nor
\* websocket_connections and its child is not left running; and a COMPLETED or
\* FAILED status is sent only after both output streams reached end-of-file and
\* the child exited.
FinalStatuses == { k \in 1..Len(trace) : trace[k].op = "STATUS" /\ trace[k].status \in {"COMPLETED", "FAILED"} }
C30_RelayCleansUpAndReportsAfterEof ==
    /\ pc \in {"web_returned", "web_raised"} =>
        /\ ExecutionId \notin active_executions
        /\ ExecutionId \notin websocket_connections
        /\ process.state # "running"
    /\ \A k \in FinalStatuses :
        /\ \A s \in Streams : trace[k].stream_tasks[s] = "eof"
        /\ trace[k].process_state \in {"exited", "terminated"}

====
